---- MODULE Spec2Model ----
(***************************************************************************)
(* The layered SQLite store of Pilot-WeeklyReport (src/src/warehouse.py):  *)
(* raw layer ods_raw, cleaned layer dwd_news, aggregate layer dws_weekly   *)
(* and ranked layer ads_items, with the operations ods_insert_raw,         *)
(* dwd_upsert, refresh_dws and refresh_ads.  Time is counted in whole      *)
(* days; a period is the week strftime('%Y-W%W') gives a day.              *)
(***************************************************************************)
EXTENDS Integers, Sequences, FiniteSets, TLC

\* ---------------------------------------------------------------- bounds
\* the last day the clock reaches
MaxNow == 8
\* number of calls made in one behaviour
MaxRaw == 2
MaxUpserts == 2
MaxRefresh == 2

\* ------------------------------------------------------- program constants
\* _to_dtstr returns None for a missing date: the NULL published_at
NullDate == -1
\* strftime('%W'): weeks of seven days
DaysPerWeek == 7
\* 1.0 / (1.0 + age / 3.0)
RecencyDays == 3
\* score = 0.6*recency + cat_bonus + 0.2*brevity, in hundredths
RecencyPct == 60
BrevityPct == 20
MarketBonusPct == 30
ProductBonusPct == 20
NewsBonusPct == 15
MethodBonusPct == 10
OtherBonusPct == 0
\* MIN(LENGTH(summary), 400) / 400.0
BrevityCap == 400
\* valid=1 is the accepted status
Accepted == 1

NullStr == "NULL"

\* the first run is on the last day of week 0
FirstDay == DaysPerWeek - 1

VARIABLES
  raw,     \* ods_raw: sequence of rows, in rid order
  dwd,     \* dwd_news: sequence of rows, in rowid order
  dws,     \* dws_weekly as committed: set of rows
  ads,     \* ads_items as committed: set of rows
  now,     \* the clock, in days
  pc,      \* position of the writer inside a refresh
  call,    \* the arguments of the refresh in progress
  work,    \* the table as the writer's open transaction sees it
  pre,     \* the committed table when the last refresh began
  hist,    \* the refresh that ended last, and how, until an upsert or a tick
  fresh,   \* the refreshes that completed since the last upsert
  ops,     \* number of calls still to be made, per operation
  dd,      \* the batch clustering run of post_process_dedup.main
  nd,      \* the near-duplicate passes of analyze_and_bucket
  cl,      \* the classification of one item in analyze_and_bucket
  an,      \* the analyses of one article by analyze_article_llm, and its cache
  rn       \* one run of generate_report.main up to the buckets

vars == <<raw, dwd, dws, ads, now, pc, call, work, pre, hist, fresh, ops, dd, nd, cl, an, rn>>

\* the layered store
storeVars == <<raw, dwd, dws, ads, now, pc, call, work, pre, hist, fresh, ops>>

\* ------------------------------------------------------------- helpers
Min(a, b) == IF a < b THEN a ELSE b

RECURSIVE Gcd(_, _)
Gcd(a, b) == IF b = 0 THEN a ELSE Gcd(b, a % b)

RECURSIVE LcmUpTo(_, _)
LcmUpTo(lo, hi) ==
  IF hi < lo THEN 1
  ELSE LET l == LcmUpTo(lo, hi - 1) IN (l * hi) \div Gcd(l, hi)

\* python: x or y
PyOr(x, y) == IF x = NullStr \/ x = "" THEN y ELSE x

\* hashlib.sha1(s).hexdigest(), on the strings of the model; the first eight
\* hex digits stand for the digest
Sha1(s) ==
  CASE s = "a" -> "86f7e437"
    [] s = "b" -> "e9d71f5e"
    [] s = "c" -> "84a51684"
    [] OTHER   -> "da39a3ee"

\* SQL LOWER
Lower(c) ==
  CASE c = "Market" -> "market"
    [] OTHER -> c

\* COALESCE(NULLIF(LOWER(category),''),'unknown')
NormCategory(c) ==
  IF c = NullStr THEN "unknown"
  ELSE IF Lower(c) = "" THEN "unknown" ELSE Lower(c)

\* strftime('%Y-W%W', published_at)
YearWeek(d) == d \div DaysPerWeek

\* published_at >= datetime('now', '-N day'); NULL compares as false
InWindow(p, t, lb) == p # NullDate /\ p >= t - lb

\* ------------------------------------------------------------- inputs
Sources == {"s1", "s2"}

\* (url_norm, link, source_id) of the feed entries
Entries ==
  { [url_norm |-> "a", link |-> "a", source_id |-> "s1"],
    [url_norm |-> "",  link |-> "a", source_id |-> "s1"],
    [url_norm |-> "b", link |-> "b", source_id |-> "s1"],
    [url_norm |-> "b", link |-> "b", source_id |-> "s2"] }

\* what the caller knows of the item: an accepted item carries the category
\* and the summary line, a filtered one carries neither
Verdicts ==
  { [valid |-> 1, category |-> "Market", summary |-> 0],
    [valid |-> 1, category |-> "",       summary |-> 500],
    [valid |-> 3, category |-> NullStr,  summary |-> 0] }

\* a run upserts the items of its own day
ItemDates(t) == {t}

\* the lookback windows and the per-week caps handed to the refreshes
Lookbacks == {1}
Caps == {1, 2}

\* the items handed to dwd_upsert; collect_items skips an entry without a date
\* or without a link, so each has both
Items(t) ==
  { [url_norm |-> e.url_norm, link |-> e.link, source_id |-> e.source_id,
     category |-> v.category, summary |-> v.summary, date |-> d, valid |-> v.valid] :
       e \in Entries, v \in Verdicts, d \in ItemDates(t) }

RawItems ==
  { [source_id |-> e.source_id, link |-> e.link] :
      e \in {x \in Entries : x.url_norm # "" /\ x.source_id = "s1"} }

\* ------------------------------------------------------------ variants
\* Wrong variants of the store's operations. Each claim below is checked to
\* fail when the operation it depends on is replaced by its variant.

\* an insert that skips an item the raw layer already holds
OdsInsertRawDedup(r, it) ==
  IF \E i \in DOMAIN r : r[i].source_id = it.source_id /\ r[i].link = it.link
    THEN r
    ELSE Append(r, [rid |-> Len(r) + 1, source_id |-> it.source_id, link |-> it.link])

\* a transaction whose statements are seen by other connections at once
TxPublishAutocommit(committed, working) == working

\* a transaction whose statements stay when the block is left by an exception
TxRollbackKeepsWork(committed, working) == working

\* a refresh that deletes nothing before it inserts
DeleteNothing(tbl, weeks) == tbl

\* ------------------------------------------------------ ods_insert_raw
\* INSERT INTO ods_raw(...): rid INTEGER PRIMARY KEY AUTOINCREMENT takes the
\* next id; nothing is looked up, nothing is updated
OdsInsertRaw(r, it) ==
  Append(r, [rid |-> Len(r) + 1, source_id |-> it.source_id, link |-> it.link])

\* ---------------------------------------------------------- dwd_upsert
\* the row dwd_upsert computes from the item
DwdRow(it, valid) ==
  LET url == PyOr(PyOr(it.url_norm, it.link), "")
      uid == Sha1(url)
  IN [ uid          |-> uid,
       wid          |-> <<it.source_id, uid>>,
       url          |-> url,
       source_id    |-> it.source_id,
       category     |-> it.category,
       summary      |-> it.summary,
       published_at |-> it.date,
       week_tag     |-> IF it.date = NullDate THEN NullDate ELSE YearWeek(it.date),
       valid        |-> valid ]

DwdIndex(d, uid) == {i \in DOMAIN d : d[i].uid = uid}

\* ON CONFLICT(uid) DO NOTHING: the first row of an identity stays
DwdUpsertKeepOld(d, it, valid) ==
  IF DwdIndex(d, DwdRow(it, valid).uid) = {} THEN Append(d, DwdRow(it, valid)) ELSE d

\* an upsert that writes an accepted item and removes the row of a rejected one
DwdUpsertDropRejected(d, it, valid) ==
  LET row == DwdRow(it, valid)
      hit == DwdIndex(d, row.uid)
  IN IF valid # Accepted THEN SelectSeq(d, LAMBDA r : r.uid # row.uid)
     ELSE IF hit = {} THEN Append(d, row)
     ELSE [i \in DOMAIN d |-> IF i \in hit THEN [row EXCEPT !.wid = d[i].wid] ELSE d[i]]

\* INSERT ... ON CONFLICT(uid) DO UPDATE SET <every column but uid, wid, created_at>
DwdUpsert(d, it, valid) ==
  LET row == DwdRow(it, valid)
      hit == DwdIndex(d, row.uid)
  IN IF hit = {} THEN Append(d, row)
     ELSE [i \in DOMAIN d |->
             IF i \in hit THEN [row EXCEPT !.wid = d[i].wid] ELSE d[i]]

\* ------------------------------------------------- sqlite3 transactions
\* "with sqlite3.connect(DB_PATH) as conn": the statements of the block run in
\* one transaction, committed when the block ends; another connection reads
\* the committed table, not the one the open transaction sees
TxPublish(committed, working) == committed

\* the block is left by an exception, or the process dies inside it: the
\* transaction is rolled back and the committed table stands
TxRollback(committed, working) == committed

\* DELETE FROM <table> WHERE year_week IN (weeks), run only "if weeks"
DeleteWeeks(tbl, weeks) == {r \in tbl : r.year_week \notin weeks}

\* ---------------------------------------------------------- refresh_dws
\* SELECT DISTINCT strftime('%Y-W%W', published_at) ... WHERE published_at >= now - N
DwsWeeks(d, t, lb) ==
  {YearWeek(d[i].published_at) : i \in {j \in DOMAIN d : InWindow(d[j].published_at, t, lb)}}

DwsKey(r) == <<r.year_week, r.source_id, r.category>>

\* the aggregate without the "valid=1" condition
DwsSelectAnyStatus(d) ==
  LET base == {i \in DOMAIN d : d[i].published_at # NullDate}
      key(i) == <<YearWeek(d[i].published_at), d[i].source_id, NormCategory(d[i].category)>>
  IN { [year_week |-> k[1], source_id |-> k[2], category |-> k[3],
        cnt |-> Cardinality({i \in base : key(i) = k})] : k \in {key(i) : i \in base} }

\* SELECT year_week, source_id, category, COUNT(*) FROM dwd_news
\* WHERE valid=1 AND published_at IS NOT NULL GROUP BY 1,2,3
DwsSelect(d) ==
  LET base == {i \in DOMAIN d : d[i].valid = Accepted /\ d[i].published_at # NullDate}
      key(i) == <<YearWeek(d[i].published_at), d[i].source_id, NormCategory(d[i].category)>>
  IN { [year_week |-> k[1], source_id |-> k[2], category |-> k[3],
        cnt |-> Cardinality({i \in base : key(i) = k})] : k \in {key(i) : i \in base} }

\* PRIMARY KEY(year_week, source_id, category): the INSERT raises IntegrityError
\* when a row to insert has the key of a row of the table
DwsInsertOk(tbl, new) == {DwsKey(r) : r \in tbl} \cap {DwsKey(r) : r \in new} = {}

\* ---------------------------------------------------------- refresh_ads
\* SELECT DISTINCT week ... WHERE valid=1 AND published_at >= now - N
AdsWeeks(d, t, lb) ==
  {YearWeek(d[i].published_at) :
     i \in {j \in DOMAIN d : d[j].valid = Accepted /\ InWindow(d[j].published_at, t, lb)}}

CatBonusPct(c) ==
  CASE c # NullStr /\ Lower(c) = "market"  -> MarketBonusPct
    [] c # NullStr /\ Lower(c) = "product" -> ProductBonusPct
    [] c # NullStr /\ Lower(c) = "news"    -> NewsBonusPct
    [] c # NullStr /\ Lower(c) = "method"  -> MethodBonusPct
    [] OTHER -> OtherBonusPct

\* the scores are fractions; ScoreUnit makes them whole numbers
AgeLcm == LcmUpTo(RecencyDays, RecencyDays + MaxNow)
ScoreUnit == 100 * BrevityCap * AgeLcm

\* (0.6*recency + cat_bonus + 0.2*brevity) * ScoreUnit, recency = 1/(1 + age/3)
Score(row, t) ==
  LET age == t - row.published_at
  IN RecencyPct * BrevityCap * ((RecencyDays * AgeLcm) \div (RecencyDays + age))
     + CatBonusPct(row.category) * BrevityCap * AgeLcm
     + BrevityPct * Min(row.summary, BrevityCap) * AgeLcm

\* ORDER BY score ASC
RowNumberAsc(d, base, t, i) ==
  1 + Cardinality({j \in base :
        /\ YearWeek(d[j].published_at) = YearWeek(d[i].published_at)
        /\ \/ Score(d[j], t) < Score(d[i], t)
           \/ Score(d[j], t) = Score(d[i], t) /\ j < i})

\* ROW_NUMBER() OVER (PARTITION BY year_week ORDER BY score DESC): rows of equal
\* score come out in the order of the scan, the rowid order
RowNumber(d, base, t, i) ==
  1 + Cardinality({j \in base :
        /\ YearWeek(d[j].published_at) = YearWeek(d[i].published_at)
        /\ \/ Score(d[j], t) > Score(d[i], t)
           \/ Score(d[j], t) = Score(d[i], t) /\ j < i})

\* WITH base, scored, ranked ... SELECT ... WHERE rnk <= cap
AdsSelect(d, t, lb, cap) ==
  LET base == {i \in DOMAIN d : d[i].valid = Accepted /\ InWindow(d[i].published_at, t, lb)}
  IN { [year_week |-> YearWeek(d[i].published_at), uid |-> d[i].uid,
        category |-> NormCategory(d[i].category), source_id |-> d[i].source_id,
        published_at |-> d[i].published_at,
        score |-> Score(d[i], t), rank |-> RowNumber(d, base, t, i)] :
       i \in {j \in base : RowNumber(d, base, t, j) <= cap} }

AdsKey(r) == <<r.year_week, r.uid>>

\* PRIMARY KEY(year_week, uid)
AdsInsertOk(tbl, new) == {AdsKey(r) : r \in tbl} \cap {AdsKey(r) : r \in new} = {}

\* -------------------------------------------------------------- state
NoCall == [lb |-> 0, cap |-> 0, weeks |-> {}]
NoFresh == [dws |-> <<>>, ads |-> <<>>]

Ended(op, ok, repeat, sameNow) ==
  [op |-> op, ok |-> ok, repeat |-> repeat, sameNow |-> sameNow]

\* no refresh has ended since the last upsert or tick
NoHist == Ended("none", TRUE, FALSE, FALSE)

\* init_db(): the four tables exist and are empty
InitDb ==
  /\ raw = <<>>
  /\ dwd = <<>>
  /\ dws = {}
  /\ ads = {}
  /\ now = FirstDay
  /\ pc = "idle"
  /\ call = NoCall
  /\ work = {}
  /\ pre = {}
  /\ hist = NoHist
  /\ fresh = NoFresh

\* no batch clustering run, no near-duplicate pass and no classification is
\* under way
NoBatch == [pc |-> "off"]

BatchOff ==
  /\ dd = NoBatch
  /\ nd = NoBatch
  /\ cl = NoBatch
  /\ an = NoBatch
  /\ rn = NoBatch

Init ==
  /\ InitDb
  /\ BatchOff
  /\ ops = [raw |-> 0, upserts |-> MaxUpserts, refreshes |-> MaxRefresh]

\* the same, with raw inserts among two upserts and two refreshes
InitAll ==
  /\ InitDb
  /\ BatchOff
  /\ ops = [raw |-> MaxRaw, upserts |-> 2, refreshes |-> 2]

\* ods_insert_raw(it), as fetch_items_from_feed calls it for every feed entry
InsertRaw ==
  /\ pc = "idle"
  /\ ops.raw > 0
  /\ \E it \in RawItems : raw' = OdsInsertRaw(raw, it)
  /\ ops' = [ops EXCEPT !.raw = @ - 1]
  /\ UNCHANGED <<dwd, dws, ads, now, pc, call, work, pre, hist, fresh, dd, nd, cl, an, rn>>

\* variant: an upsert of a rejected item that also removes the item's ranked rows
UpsertPurgingRanked ==
  /\ pc = "idle"
  /\ ops.upserts > 0
  /\ \E it \in Items(now) :
       /\ dwd' = DwdUpsert(dwd, it, it.valid)
       /\ ads' = IF it.valid = Accepted THEN ads
                 ELSE {r \in ads : r.uid # DwdRow(it, it.valid).uid}
  /\ hist' = NoHist
  /\ fresh' = NoFresh
  /\ pre' = {}
  /\ ops' = [ops EXCEPT !.upserts = @ - 1]
  /\ UNCHANGED <<raw, dws, now, pc, call, work, dd, nd, cl, an, rn>>

\* dwd_upsert(it, valid)
Upsert ==
  /\ pc = "idle"
  /\ ops.upserts > 0
  /\ \E it \in Items(now) : dwd' = DwdUpsert(dwd, it, it.valid)
  /\ hist' = NoHist
  /\ fresh' = NoFresh
  /\ pre' = {}
  /\ ops' = [ops EXCEPT !.upserts = @ - 1]
  /\ UNCHANGED <<raw, dws, ads, now, pc, call, work, dd, nd, cl, an, rn>>

\* a day passes between two calls
Tick ==
  /\ pc = "idle"
  /\ now < MaxNow
  /\ now' = now + 1
  /\ hist' = NoHist
  /\ pre' = {}
  /\ UNCHANGED <<raw, dwd, dws, ads, pc, call, work, fresh, ops, dd, nd, cl, an, rn>>

\* refresh_dws(lookback_days): the SELECT of the weeks and the DELETE
DwsDelete ==
  /\ pc = "idle"
  /\ ops.refreshes > 0
  /\ \E lb \in Lookbacks :
       LET weeks == DwsWeeks(dwd, now, lb) IN
         /\ call' = [lb |-> lb, cap |-> 0, weeks |-> weeks]
         /\ work' = IF weeks # {} THEN DeleteWeeks(dws, weeks) ELSE dws
  /\ pre' = dws
  /\ dws' = TxPublish(dws, work')
  /\ pc' = "dws_deleted"
  /\ ops' = [ops EXCEPT !.refreshes = @ - 1]
  /\ UNCHANGED <<raw, dwd, ads, now, hist, fresh, dd, nd, cl, an, rn>>

\* refresh_dws: the INSERT ... SELECT and the end of the with block, which
\* commits; an IntegrityError leaves the block, which rolls back
DwsInsert ==
  /\ pc = "dws_deleted"
  /\ LET new == DwsSelect(dwd)
         repeat == fresh.dws # <<>> /\ fresh.dws[1] = call.lb
     IN IF DwsInsertOk(work, new)
        THEN /\ dws' = work \cup new
             /\ hist' = Ended("refresh_dws", TRUE, repeat, FALSE)
             /\ fresh' = [fresh EXCEPT !.dws = <<call.lb>>]
        ELSE /\ dws' = TxRollback(dws, work)
             /\ hist' = Ended("refresh_dws", FALSE, repeat, FALSE)
             /\ fresh' = [fresh EXCEPT !.dws = <<>>]
  /\ work' = {}
  /\ pc' = "idle"
  /\ call' = NoCall
  /\ UNCHANGED <<raw, dwd, ads, now, pre, ops, dd, nd, cl, an, rn>>

\* refresh_ads(lookback_days, per_week_cap): the SELECT of the weeks and the DELETE
AdsDelete ==
  /\ pc = "idle"
  /\ ops.refreshes > 0
  /\ \E lb \in Lookbacks, cap \in Caps :
       LET weeks == AdsWeeks(dwd, now, lb) IN
         /\ call' = [lb |-> lb, cap |-> cap, weeks |-> weeks]
         /\ work' = IF weeks # {} THEN DeleteWeeks(ads, weeks) ELSE ads
  /\ pre' = ads
  /\ ads' = TxPublish(ads, work')
  /\ pc' = "ads_deleted"
  /\ ops' = [ops EXCEPT !.refreshes = @ - 1]
  /\ UNCHANGED <<raw, dwd, dws, now, hist, fresh, dd, nd, cl, an, rn>>

\* refresh_ads: the INSERT ... WITH base, scored, ranked and the end of the
\* with block
AdsInsert ==
  /\ pc = "ads_deleted"
  /\ LET new == AdsSelect(dwd, now, call.lb, call.cap)
         repeat == /\ fresh.ads # <<>>
                   /\ fresh.ads[1].lb = call.lb
                   /\ fresh.ads[1].cap = call.cap
     IN IF AdsInsertOk(work, new)
        THEN /\ ads' = work \cup new
             /\ hist' = Ended("refresh_ads", TRUE, repeat,
                              repeat /\ fresh.ads[1].now = now)
             /\ fresh' = [fresh EXCEPT
                            !.ads = <<[lb |-> call.lb, cap |-> call.cap, now |-> now]>>]
        ELSE /\ ads' = TxRollback(ads, work)
             /\ hist' = Ended("refresh_ads", FALSE, repeat,
                              repeat /\ fresh.ads[1].now = now)
             /\ fresh' = [fresh EXCEPT !.ads = <<>>]
  /\ work' = {}
  /\ pc' = "idle"
  /\ call' = NoCall
  /\ UNCHANGED <<raw, dwd, dws, now, pre, ops, dd, nd, cl, an, rn>>

\* the run is cancelled between the DELETE and the INSERT of a refresh: the
\* open transaction is never committed, and sqlite discards it
Abort ==
  /\ pc # "idle"
  /\ dws' = IF pc = "dws_deleted" THEN TxRollback(dws, work) ELSE dws
  /\ ads' = IF pc = "ads_deleted" THEN TxRollback(ads, work) ELSE ads
  /\ work' = {}
  /\ pc' = "idle"
  /\ call' = NoCall
  /\ hist' = Ended(IF pc = "dws_deleted" THEN "abort_refresh_dws" ELSE "abort_refresh_ads",
                   FALSE, FALSE, FALSE)
  /\ UNCHANGED <<raw, dwd, now, pre, fresh, ops, dd, nd, cl, an, rn>>

\* the cleaned, aggregate and ranked layers
Next ==
  \/ Upsert
  \/ Tick
  \/ DwsDelete
  \/ DwsInsert
  \/ AdsDelete
  \/ AdsInsert
  \/ Abort

Spec == Init /\ [][Next]_vars

\* the four layers
NextAll ==
  \/ InsertRaw
  \/ Next

SpecAll == InitAll /\ [][NextAll]_vars

\* the cleaned layer alone: the upserts of the runs, day after day
NextDwd ==
  \/ Upsert
  \/ Tick

SpecDwd == Init /\ [][NextDwd]_vars

\* ------------------------------------------------------------- claims
\* the last operation that ended is `op`, and no other has begun
JustEnded(op) == pc = "idle" /\ hist.op = op

\* the weeks touched by an accepted row inside the lookback window
AcceptedWeeks(lb) ==
  {YearWeek(dwd[i].published_at) :
     i \in {j \in DOMAIN dwd : dwd[j].valid = Accepted /\ InWindow(dwd[j].published_at, now, lb)}}

\* C1: refresh_dws called again after a refresh_dws that completed, with the
\* same window and no upsert in between, completes without error and leaves the
\* aggregate layer as the first call left it.
C1_RefreshAggregateTwice ==
  (JustEnded("refresh_dws") /\ hist.repeat) => (hist.ok /\ dws = pre)

\* the number of accepted, timestamped cleaned rows of a week, source and category
AcceptedCount(w, s, c) ==
  Cardinality({i \in DOMAIN dwd :
                 /\ dwd[i].valid = Accepted
                 /\ dwd[i].published_at # NullDate
                 /\ dwd[i].published_at \div DaysPerWeek = w
                 /\ dwd[i].source_id = s
                 /\ NormCategory(dwd[i].category) = c})

AggCategories == {"market", "unknown"}

\* C2: after refresh_dws completes, every week touched by an accepted in-window
\* row holds, for each source and category, one row with the number of accepted
\* timestamped cleaned rows of that week, source and category (none when there
\* is no such cleaned row); and no key ever occurs in two aggregate rows.
C2_AggregateCounts ==
  /\ \A r1 \in dws, r2 \in dws : DwsKey(r1) = DwsKey(r2) => r1 = r2
  /\ (JustEnded("refresh_dws") /\ hist.ok) =>
       \A w \in AcceptedWeeks(fresh.dws[1]), s \in Sources, c \in AggCategories :
         LET n == AcceptedCount(w, s, c)
             rows == {r \in dws : r.year_week = w /\ r.source_id = s /\ r.category = c}
         IN /\ n = 0 => rows = {}
            /\ n > 0 => (Cardinality(rows) = 1 /\ \A r \in rows : r.cnt = n)

\* a refresh_dws completed and left, in a touched week, a row that counts two
\* cleaned rows
C2_Witness ==
  /\ JustEnded("refresh_dws") /\ hist.ok
  /\ \E r \in dws : r.cnt = 2 /\ r.year_week \in AcceptedWeeks(fresh.dws[1])

\* C3, as claimed: refresh_ads called again after a refresh_ads that completed,
\* with the same window and cap and no upsert in between, leaves the ranked
\* layer as the first call left it.
C3_RefreshRankedTwice ==
  (JustEnded("refresh_ads") /\ hist.repeat) => (hist.ok /\ ads = pre)

\* C3, amended: the same, when the clock reads the same at the two calls.
C3_RefreshRankedTwiceSameClock ==
  (JustEnded("refresh_ads") /\ hist.repeat /\ hist.sameNow) => (hist.ok /\ ads = pre)

\* a second refresh_ads at the same clock reading ended, with ranked rows
C3_Witness ==
  /\ JustEnded("refresh_ads") /\ hist.repeat /\ hist.sameNow
  /\ Cardinality(ads) >= 2

\* C4: after refresh_ads(window, cap) completes, every touched week holds at
\* most cap rows, their ranks are 1..k, a smaller rank never has a lower score,
\* and no accepted in-window row left out of the week scores higher than a row
\* kept for it.
C4_RankedTopN ==
  (JustEnded("refresh_ads") /\ hist.ok) =>
    LET lb == fresh.ads[1].lb
        cap == fresh.ads[1].cap
    IN \A w \in AcceptedWeeks(lb) :
         LET kept == {r \in ads : r.year_week = w}
             out == {i \in DOMAIN dwd :
                       /\ dwd[i].valid = Accepted
                       /\ InWindow(dwd[i].published_at, now, lb)
                       /\ dwd[i].published_at \div DaysPerWeek = w
                       /\ dwd[i].uid \notin {r.uid : r \in kept}}
         IN /\ Cardinality(kept) <= cap
            /\ kept # {}
            /\ {r.rank : r \in kept} = 1..Cardinality(kept)
            /\ \A r1 \in kept, r2 \in kept : r1.rank < r2.rank => r1.score >= r2.score
            /\ \A i \in out, r \in kept : Score(dwd[i], now) <= r.score

\* a refresh_ads with cap 1 completed on a week of two accepted in-window rows
\* of different scores: one is kept, one is left out
C4_Witness ==
  /\ JustEnded("refresh_ads") /\ hist.ok
  /\ fresh.ads[1].cap = 1
  /\ \E i \in DOMAIN dwd, j \in DOMAIN dwd :
       /\ dwd[i].valid = Accepted /\ dwd[j].valid = Accepted
       /\ InWindow(dwd[i].published_at, now, fresh.ads[1].lb)
       /\ InWindow(dwd[j].published_at, now, fresh.ads[1].lb)
       /\ YearWeek(dwd[i].published_at) = YearWeek(dwd[j].published_at)
       /\ Score(dwd[i], now) > Score(dwd[j], now)
       /\ dwd[i].uid \in {r.uid : r \in ads}
       /\ dwd[j].uid \notin {r.uid : r \in ads}

\* C5: after refresh_ads completes, the ranked layer holds only rows computed by
\* that call: every ranked row is the row of a cleaned item that is accepted and
\* inside the lookback window.
C5_RankedFullyReplaced ==
  (JustEnded("refresh_ads") /\ hist.ok) =>
    \A r \in ads :
      \E i \in DOMAIN dwd :
        /\ dwd[i].uid = r.uid
        /\ dwd[i].valid = Accepted
        /\ InWindow(dwd[i].published_at, now, fresh.ads[1].lb)

\* C6: while a refresh is between its DELETE and its INSERT, a reader (another
\* connection) still sees the table as it was before the refresh: the period's
\* old rows are not gone before the new ones are there.
C6_ReaderSeesWholeRefresh ==
  /\ pc = "dws_deleted" => dws = pre
  /\ pc = "ads_deleted" => ads = pre

\* a refresh has deleted rows of a touched week in its transaction, and the
\* reader's table still holds them
C6_Witness ==
  \/ pc = "dws_deleted" /\ work # dws /\ \E r \in dws : r.year_week \in call.weeks
  \/ pc = "ads_deleted" /\ work # ads /\ \E r \in ads : r.year_week \in call.weeks

\* what a refresh that completes leaves in its table
FullDws == DeleteWeeks(pre, call.weeks) \cup DwsSelect(dwd)
FullAds == DeleteWeeks(pre, call.weeks) \cup AdsSelect(dwd, now, call.lb, call.cap)

\* C7: when a refresh ends, by completing, by failing or by the run being
\* aborted after the DELETE, the raw and cleaned rows are as before, the other
\* derived layer is as before, and the refreshed layer holds either its content
\* from before the refresh (always so after a failure or an abort) or the
\* complete result of the refresh.
C7_AbortKeepsLayers ==
  [][ (pc # "idle" /\ pc' = "idle") =>
        /\ raw' = raw
        /\ dwd' = dwd
        /\ pc = "dws_deleted" =>
             /\ ads' = ads
             /\ dws' = IF hist'.ok THEN FullDws ELSE pre
        /\ pc = "ads_deleted" =>
             /\ dws' = dws
             /\ ads' = IF hist'.ok THEN FullAds ELSE pre ]_vars

\* a refresh_dws was aborted after it had deleted rows of a touched week; the
\* raw, cleaned and aggregate rows are there
C7_Witness ==
  /\ JustEnded("abort_refresh_dws")
  /\ raw # <<>>
  /\ dwd # <<>>
  /\ \E r \in dws, lb \in Lookbacks : r.year_week \in DwsWeeks(dwd, now, lb)

\* C8: every step keeps every raw row as it is; ods_insert_raw adds exactly one
\* row, with an id no row has, also for an item already in the layer; no other
\* operation changes the raw layer.
C8_RawAppendOnly ==
  [][ /\ \A i \in DOMAIN raw : i \in DOMAIN raw' /\ raw'[i] = raw[i]
      /\ ops'.raw # ops.raw =>
           /\ Len(raw') = Len(raw) + 1
           /\ raw'[Len(raw')].rid \notin {raw[i].rid : i \in DOMAIN raw}
      /\ ops'.raw = ops.raw => raw' = raw ]_vars

\* the raw layer holds the same item twice, under two ids, and a refresh ended
C8_Witness ==
  /\ \E i \in DOMAIN raw, j \in DOMAIN raw :
       /\ raw[i].rid # raw[j].rid
       /\ raw[i].source_id = raw[j].source_id
       /\ raw[i].link = raw[j].link
  /\ hist.op # "none"

\* the content identity dwd_upsert gives an item
Identity(it) ==
  IF it.url_norm # "" THEN Sha1(it.url_norm) ELSE Sha1(it.link)

DwdUids(d) == {d[i].uid : i \in DOMAIN d}

\* C9: the cleaned layer holds one row per identity; dwd_upsert of any item adds
\* one row when the identity is new and none when it exists, leaves the rows of
\* other identities alone, stores the item's fields and status in the row of
\* its identity, and changes nothing when repeated.
C9_UpsertByIdentity ==
  /\ \A i \in DOMAIN dwd, j \in DOMAIN dwd : dwd[i].uid = dwd[j].uid => i = j
  /\ \A it \in Items(now) :
       LET d1 == DwdUpsert(dwd, it, it.valid)
           mine == {i \in DOMAIN d1 : d1[i].uid = Identity(it)}
       IN /\ Len(d1) = Len(dwd) + (IF Identity(it) \in DwdUids(dwd) THEN 0 ELSE 1)
          /\ Cardinality(mine) = 1
          /\ \A i \in mine :
               /\ d1[i].source_id = it.source_id
               /\ d1[i].category = it.category
               /\ d1[i].summary = it.summary
               /\ d1[i].published_at = it.date
               /\ d1[i].valid = it.valid
          /\ \A i \in DOMAIN dwd : dwd[i].uid # Identity(it) => d1[i] = dwd[i]
          /\ DwdUpsert(d1, it, it.valid) = d1

\* two upserts were made and left one row: the second overwrote the first, with
\* another source and another status
C9_Witness ==
  /\ Len(dwd) = 1
  /\ ops.upserts = MaxUpserts - 2
  /\ dwd[1].wid[1] # dwd[1].source_id
  /\ dwd[1].valid # Accepted

\* C10: no step removes an identity from the cleaned layer, and an item upserted
\* with a rejection status is in the layer with that status.
C10_CleanedNeverShrinks ==
  /\ [][DwdUids(dwd) \subseteq DwdUids(dwd')]_vars
  /\ [](\A it \in {x \in Items(now) : x.valid # Accepted} :
          LET d1 == DwdUpsert(dwd, it, it.valid)
          IN \E i \in DOMAIN d1 : d1[i].uid = Identity(it) /\ d1[i].valid = it.valid)

\* an item was accepted and ranked, then upserted as rejected: its row is in the
\* cleaned layer with the rejection status, and a refresh has run over it
C10_Witness ==
  /\ JustEnded("refresh_ads")
  /\ raw # <<>>
  /\ \E r \in ads : \E i \in DOMAIN dwd : dwd[i].uid = r.uid /\ dwd[i].valid # Accepted

\* C11: ods_insert_raw and dwd_upsert leave the aggregate and ranked layers as
\* they are; refresh_dws leaves the raw, cleaned and ranked layers as they are
\* and refresh_ads the raw, cleaned and aggregate layers; so the aggregate layer
\* changes only in a step of refresh_dws and the ranked layer only in a step of
\* refresh_ads.
C11_LayerFrame ==
  [][ /\ (ops'.raw # ops.raw \/ ops'.upserts # ops.upserts) => (dws' = dws /\ ads' = ads)
      /\ (pc = "dws_deleted" \/ pc' = "dws_deleted") =>
           (raw' = raw /\ dwd' = dwd /\ ads' = ads)
      /\ (pc = "ads_deleted" \/ pc' = "ads_deleted") =>
           (raw' = raw /\ dwd' = dwd /\ dws' = dws)
      /\ dws' # dws => pc = "dws_deleted"
      /\ ads' # ads => pc = "ads_deleted" ]_vars

\* the four layers hold rows, and an upsert was made after the ranked layer was
\* filled
C11_Witness ==
  /\ raw # <<>> /\ dwd # <<>> /\ dws # {} /\ ads # {}
  /\ pc = "idle"
  /\ hist = NoHist
  /\ \E r \in ads : \E i \in DOMAIN dwd : dwd[i].uid = r.uid /\ dwd[i].valid # Accepted

\* =================================================== post_process_dedup.py
\* The batch clustering run of post_process_dedup.main: candidate pairs,
\* confirmed duplicate edges, union-find clusters, the kept item of each
\* cluster and the audit rows of the dropped ones.

\* JACCARD_TH and SIMHASH_HAM_TH as main() defaults them; the Jaccard values
\* are in hundredths
JaccardThPct == 62
HamTh == 8
\* abs(len(A.norm) - len(B.norm)) > 200
LenGap == 200
\* the strong rule: jaccard >= 0.8
StrongJaccardPct == 80
\* the pass over all items runs when len(items) <= 400
BatchLimit == 400

\* the reason strings of main(), in English: the strong rule's label, the label
\* for an oracle verdict without a reason, the label for a member with no edge
\* to the kept item
StrongLabel == "same host, high similarity"
OracleLabel == "LLM judged duplicate"
ClusterLabel == "merged with its cluster"

\* the items of the Markdown file, by position
ItemIds == 1 .. 3
ItemSeq == [i \in ItemIds |-> i]

\* urlparse(url).netloc of an item; "" for an item without a link
Hosts == {"", "h1"}

\* shingle Jaccard (hundredths) and SimHash distance of two items
PairSims ==
  { [jac |-> 50, ham |-> 0], [jac |-> 70, ham |-> 0],
    [jac |-> 90, ham |-> 0], [jac |-> 90, ham |-> 9] }

PairKeys == {k \in ItemIds \X ItemIds : k[1] < k[2]}

\* the code points of "0", of the month sign and of the day sign
CharZero == 48
CharMonth == 26376
CharDay == 26085

\* str(n) for a number of one or two digits
Digits(n) ==
  IF n < 10 THEN <<CharZero + n>> ELSE <<CharZero + (n \div 10), CharZero + (n % 10)>>

\* dm.group(0): the text "<month><month sign><day><day sign>" of a line, ""
\* for a line without one (month 0 here); a text is the list of its code points
DateText(md) ==
  IF md[1] = 0 THEN <<>>
  ELSE Digits(md[1]) \o <<CharMonth>> \o Digits(md[2]) \o <<CharDay>>

\* s < t on Python strings
RECURSIVE StrLess(_, _)
StrLess(s, t) ==
  IF t = <<>> THEN FALSE
  ELSE IF s = <<>> THEN TRUE
  ELSE IF s[1] # t[1] THEN s[1] < t[1]
  ELSE StrLess(Tail(s), Tail(t))

\* the month and day written in each line (<<0, 0>>: none) and the length of
\* the normalized text
ItemProfiles ==
  { [date |-> << <<9, 30>>, <<10, 1>>, <<11, 2>> >>, len |-> <<100, 100, 100>>],
    [date |-> << <<3, 5>>, <<2, 1>>, <<2, 1>> >>,    len |-> <<100, 100, 400>>],
    [date |-> << <<0, 0>>, <<3, 5>>, <<2, 1>> >>,    len |-> <<400, 100, 100>>] }

KeepPolicies == {"earliest", "latest", "longest"}

\* LLM and MAX_PAIRS
OracleCfgs ==
  {[useLlm |-> FALSE, maxPairs |-> 2]}
    \cup {[useLlm |-> TRUE, maxPairs |-> m] : m \in {0, 1, 2}}

\* what the chat completion gives: an exception, text that is no JSON, or the
\* JSON object asked for
Replies ==
  { [kind |-> "error", duplicate |-> FALSE, reason |-> "timeout"],
    [kind |-> "garbage", duplicate |-> FALSE, reason |-> "no json"],
    [kind |-> "json", duplicate |-> TRUE, reason |-> "same event"],
    [kind |-> "json", duplicate |-> TRUE, reason |-> ""],
    [kind |-> "json", duplicate |-> FALSE, reason |-> "other event"] }

\* the Item objects parse_md_items builds
DedupItems(in) ==
  [i \in ItemIds |-> [id |-> i, host |-> in.host[i], date |-> DateText(in.date[i]), len |-> in.len[i]]]

\* items.index(x): the first position that holds an equal item
ItemsIndex(items, x) ==
  CHOOSE i \in DOMAIN items : items[i] = x /\ \A j \in DOMAIN items : j < i => items[j] # x

\* the test of add_pairs on the items at positions a < b
IsCandidate(in, a, b) ==
  LET gap == IF in.len[a] > in.len[b] THEN in.len[a] - in.len[b] ELSE in.len[b] - in.len[a]
  IN /\ ~(gap > LenGap)
     /\ ~(in.sim[<<a, b>>].jac < JaccardThPct)
     /\ ~(in.sim[<<a, b>>].ham > HamTh)

\* add_pairs(indices): the double loop, from position a, b of the list on
RECURSIVE AddPairs(_, _, _, _)
AddPairs(in, ix, a, b) ==
  IF a > Len(ix) THEN <<>>
  ELSE IF b > Len(ix) THEN AddPairs(in, ix, a + 1, a + 2)
  ELSE (IF IsCandidate(in, ix[a], ix[b]) THEN <<<<ix[a], ix[b]>>>> ELSE <<>>)
         \o AddPairs(in, ix, a, b + 1)

\* the positions of a bucket, in order
Bucket(in, h) == SelectSeq(ItemSeq, LAMBDA i : in.host[i] = h)

\* for host, idxs in buckets.items(): if len(idxs) > 1: add_pairs(idxs); the
\* dict holds the hosts in the order of their first item
RECURSIVE BucketPairs(_, _)
BucketPairs(in, i) ==
  IF i > Len(ItemSeq) THEN <<>>
  ELSE (IF (\A j \in ItemIds : j < i => in.host[j] # in.host[i])
           /\ Len(Bucket(in, in.host[i])) > 1
        THEN AddPairs(in, Bucket(in, in.host[i]), 1, 2) ELSE <<>>)
         \o BucketPairs(in, i + 1)

\* candidate_pairs(items, jaccard_th, ham_th)
CandidatePairs(in) ==
  BucketPairs(in, 1)
    \o (IF Len(ItemSeq) <= BatchLimit THEN AddPairs(in, ItemSeq, 1, 2) ELSE <<>>)

\* variant: a strong rule that does not look at the hosts
IsStrongAnyHost(in, a, b) == in.sim[<<a, b>>].jac >= StrongJaccardPct

\* the strong rule: same host and jaccard >= 0.8
IsStrong(in, a, b) ==
  in.host[a] = in.host[b] /\ in.sim[<<a, b>>].jac >= StrongJaccardPct

\* variant: the oracle asked for every pair the strong rule leaves, whatever
\* MAX_PAIRS says
OracleAskedNoCap(in, idx) == in.useLlm

\* "if use_llm and idx < max_pairs", idx being the position of the pair in the
\* list, from 0
OracleAsked(in, idx) == in.useLlm /\ idx < in.maxPairs

\* the reason llm_confirm gives when the call raises or json.loads raises
FailReason(reply) ==
  IF reply.kind = "error" THEN "LLM call failed: timeout" ELSE "LLM call failed: no json"

\* llm_confirm: (bool(data["duplicate"]), str(data["reason"])), or
\* (False, failure reason) from the except branch
LlmConfirm(reply) ==
  IF reply.kind = "json"
    THEN [dup |-> reply.duplicate, reason |-> reply.reason]
    ELSE [dup |-> FALSE, reason |-> FailReason(reply)]

\* find(x), with its path halving: the root, and parent as find leaves it
RECURSIVE Find(_, _)
Find(p, x) ==
  IF p[x] = x THEN [root |-> x, parent |-> p]
  ELSE LET p2 == [p EXCEPT ![x] = p[p[x]]]
       IN Find(p2, p2[x])

\* variant: a union that hangs b itself, not its root, under the root of a
UnionNoRoot(p, a, b) ==
  LET fa == Find(p, a)
  IN IF fa.root # b THEN [fa.parent EXCEPT ![b] = fa.root] ELSE fa.parent

\* union(a, b): ra, rb = find(a), find(b); if ra != rb: parent[rb] = ra
Union(p, a, b) ==
  LET fa == Find(p, a)
      fb == Find(fa.parent, b)
  IN IF fa.root # fb.root THEN [fb.parent EXCEPT ![fb.root] = fa.root] ELSE fb.parent

\* "for i in range(len(items)): clusters[find(i)].append(i)": the root found
\* for each item, the finds running one after the other on the same parent
RECURSIVE Roots(_, _, _)
Roots(p, i, acc) ==
  IF i > Len(ItemSeq) THEN acc
  ELSE Roots(Find(p, i).parent, i + 1, Append(acc, Find(p, i).root))

\* the clusters dict: one list of positions per root, the roots in the order
\* the loop first meets them
Clusters(roots) ==
  LET firsts == SelectSeq(ItemSeq, LAMBDA i : \A j \in ItemIds : j < i => roots[j] # roots[i])
  IN [n \in DOMAIN firsts |-> SelectSeq(ItemSeq, LAMBDA i : roots[i] = roots[firsts[n]])]

\* x comes before y in the order the keep policy sorts a cluster by
SortsBefore(in, x, y) ==
  CASE in.keepPol = "latest"  -> StrLess(DateText(in.date[y]), DateText(in.date[x]))
    [] in.keepPol = "longest" -> in.len[x] > in.len[y]
    [] OTHER                  -> StrLess(DateText(in.date[x]), DateText(in.date[y]))

\* grp[0] after grp.sort(...): list.sort is stable, also with reverse=True, so
\* among the members of the best key the first of the cluster comes first
SortFirst(in, c) ==
  c[CHOOSE n \in DOMAIN c :
      \A m \in DOMAIN c : m # n =>
        \/ SortsBefore(in, c[n], c[m])
        \/ ~SortsBefore(in, c[m], c[n]) /\ n < m]

\* keep_idx of a cluster: the member itself for a cluster of one, else
\* items.index(grp[0])
KeepIdx(in, c) ==
  IF Len(c) = 1 THEN c[1] ELSE ItemsIndex(DedupItems(in), DedupItems(in)[SortFirst(in, c)])

\* the reason of the first edge of dup_edges that joins the kept item and i, ""
\* when there is none
EdgeReason(edges, k, i) ==
  LET hits == {n \in DOMAIN edges :
                 \/ edges[n].a = k /\ edges[n].b = i
                 \/ edges[n].b = k /\ edges[n].a = i}
  IN IF hits = {} THEN ""
     ELSE edges[CHOOSE n \in hits : \A m \in hits : n <= m].reason

\* variant: an audit row for every member of a cluster, the kept one too
ClusterRowsAll(in, edges, c) ==
  [n \in DOMAIN c |->
     [kept_id |-> DedupItems(in)[KeepIdx(in, c)].id,
      dropped_id |-> DedupItems(in)[c[n]].id,
      reason |-> PyOr(EdgeReason(edges, KeepIdx(in, c), c[n]), ClusterLabel)]]

\* the dropped_rows of one cluster: a row for every member but the kept one
ClusterRows(in, edges, c) ==
  LET k == KeepIdx(in, c)
      out == SelectSeq(c, LAMBDA i : i # k)
  IN IF Len(c) = 1 THEN <<>>
     ELSE [n \in DOMAIN out |->
             [kept_id |-> DedupItems(in)[k].id,
              dropped_id |-> DedupItems(in)[out[n]].id,
              reason |-> PyOr(EdgeReason(edges, k, out[n]), ClusterLabel)]]

\* dropped_rows, cluster after cluster
RECURSIVE DroppedRows(_, _, _, _)
DroppedRows(in, edges, cs, n) ==
  IF n > Len(cs) THEN <<>>
  ELSE ClusterRows(in, edges, cs[n]) \o DroppedRows(in, edges, cs, n + 1)

\* the run as main() starts it: the configuration is read, the items are parsed
DedupInputs ==
  { [pc |-> "recall", host |-> h, sim |-> sm, date |-> pf.date, len |-> pf.len,
     keepPol |-> kp, useLlm |-> oc.useLlm, maxPairs |-> oc.maxPairs,
     pairs |-> <<>>, idx |-> 0, edges |-> <<>>, calls |-> 0, asked |-> {},
     failures |-> {}, parent |-> ItemSeq, ui |-> 1, clusters |-> <<>>,
     keep |-> {}, dropped |-> <<>>, md |-> <<>>, audit |-> <<>>] :
      h \in [ItemIds -> Hosts], sm \in [PairKeys -> PairSims], pf \in ItemProfiles,
      kp \in KeepPolicies, oc \in OracleCfgs }

\* the store is not part of these runs
StoreOff ==
  /\ InitDb
  /\ ops = [raw |-> 0, upserts |-> 0, refreshes |-> 0]

InitDedup ==
  /\ StoreOff
  /\ dd \in DedupInputs
  /\ nd = NoBatch
  /\ cl = NoBatch
  /\ an = NoBatch
  /\ rn = NoBatch

\* where main() goes on when the loop over the pairs is over
AfterConfirm(edges) == IF edges = <<>> THEN "cluster" ELSE "union"

\* pairs = candidate_pairs(items, j_th, ham_th)
Recall ==
  /\ dd.pc = "recall"
  /\ LET pairs == CandidatePairs(dd)
     IN dd' = [dd EXCEPT !.pairs = pairs,
                         !.pc = IF pairs = <<>> THEN "cluster" ELSE "confirm"]
  /\ UNCHANGED <<storeVars, nd, cl, an, rn>>

\* one turn of "for idx, (ia, ib) in enumerate(pairs)"
ConfirmPair ==
  /\ dd.pc = "confirm"
  /\ LET a == dd.pairs[dd.idx + 1][1]
         b == dd.pairs[dd.idx + 1][2]
         last == dd.idx + 1 = Len(dd.pairs)
         Step(edges) == IF last THEN AfterConfirm(edges) ELSE "confirm"
     IN IF IsStrong(dd, a, b)
        THEN LET edges == Append(dd.edges, [a |-> a, b |-> b, reason |-> StrongLabel])
             IN dd' = [dd EXCEPT !.edges = edges, !.idx = @ + 1, !.pc = Step(edges)]
        ELSE IF OracleAsked(dd, dd.idx)
        THEN \E reply \in Replies :
               LET res == LlmConfirm(reply)
                   edges == IF res.dup
                              THEN Append(dd.edges,
                                          [a |-> a, b |-> b,
                                           reason |-> PyOr(res.reason, OracleLabel)])
                              ELSE dd.edges
               IN dd' = [dd EXCEPT
                           !.edges = edges, !.idx = @ + 1, !.pc = Step(edges),
                           !.calls = @ + 1,
                           !.asked = @ \cup {dd.idx},
                           !.failures = IF reply.kind = "json" THEN @
                                        ELSE @ \cup {[a |-> a, b |-> b, reason |-> res.reason]}]
        ELSE dd' = [dd EXCEPT !.idx = @ + 1, !.pc = Step(dd.edges)]
  /\ UNCHANGED <<storeVars, nd, cl, an, rn>>

\* one turn of "for ia, ib, _ in dup_edges: union(ia, ib)"
UnionEdge ==
  /\ dd.pc = "union"
  /\ dd' = [dd EXCEPT
              !.parent = Union(dd.parent, dd.edges[dd.ui].a, dd.edges[dd.ui].b),
              !.ui = @ + 1,
              !.pc = IF dd.ui = Len(dd.edges) THEN "cluster" ELSE "union"]
  /\ UNCHANGED <<storeVars, nd, cl, an, rn>>

\* the clusters dict is filled
Cluster ==
  /\ dd.pc = "cluster"
  /\ dd' = [dd EXCEPT !.clusters = Clusters(Roots(dd.parent, 1, <<>>)), !.pc = "select"]
  /\ UNCHANGED <<storeVars, nd, cl, an, rn>>

\* the loop over the clusters: keep and dropped_rows
SelectKeep ==
  /\ dd.pc = "select"
  /\ dd' = [dd EXCEPT
              !.keep = {KeepIdx(dd, dd.clusters[n]) : n \in DOMAIN dd.clusters},
              !.dropped = DroppedRows(dd, dd.edges, dd.clusters, 1),
              !.pc = "write"]
  /\ UNCHANGED <<storeVars, nd, cl, an, rn>>

\* the deduplicated Markdown and the audit CSV are written
WriteOut ==
  /\ dd.pc = "write"
  /\ dd' = [dd EXCEPT
              !.md = SelectSeq(ItemSeq, LAMBDA i : i \in dd.keep),
              !.audit = dd.dropped,
              !.pc = "done"]
  /\ UNCHANGED <<storeVars, nd, cl, an, rn>>

NextDedup ==
  \/ Recall
  \/ ConfirmPair
  \/ UnionEdge
  \/ Cluster
  \/ SelectKeep
  \/ WriteOut

SpecDedup == InitDedup /\ [][NextDedup]_vars

\* the items joined to the items of `set` by a chain of the given edges
RECURSIVE Reach(_, _)
Reach(edges, set) ==
  LET more == set \cup {e.b : e \in {x \in edges : x.a \in set}}
                  \cup {e.a : e \in {x \in edges : x.b \in set}}
  IN IF more = set THEN set ELSE Reach(edges, more)

EdgeSet(edges, n) == {edges[m] : m \in {k \in DOMAIN edges : k <= n}}

Members(c) == {c[n] : n \in DOMAIN c}

\* the clustering is over
Clustered == dd.pc \in {"select", "write", "done"}

\* C12: once the clusters are built every item is in exactly one cluster, and
\* two items share a cluster exactly when a chain of confirmed edges joins them;
\* and while the edges are merged, two items have the same root exactly when a
\* chain of the edges merged so far joins them, whatever the order of the edges.
C12_ClustersAreComponents ==
  /\ Clustered =>
       /\ \A i \in ItemIds :
            Cardinality({n \in DOMAIN dd.clusters : i \in Members(dd.clusters[n])}) = 1
       /\ \A n \in DOMAIN dd.clusters :
            Cardinality(Members(dd.clusters[n])) = Len(dd.clusters[n])
       /\ \A i \in ItemIds, j \in ItemIds :
            (\E n \in DOMAIN dd.clusters :
               i \in Members(dd.clusters[n]) /\ j \in Members(dd.clusters[n]))
              <=> j \in Reach(EdgeSet(dd.edges, Len(dd.edges)), {i})
  /\ dd.pc = "union" =>
       \A i \in ItemIds, j \in ItemIds :
         (Find(dd.parent, i).root = Find(dd.parent, j).root)
           <=> j \in Reach(EdgeSet(dd.edges, dd.ui - 1), {i})

\* a run ended with the three items in one cluster, on the edges 1~2 and 2~3
\* and no edge 1~3
C12_Witness ==
  /\ dd.pc = "done"
  /\ Len(dd.clusters) = 1
  /\ {<<e.a, e.b>> : e \in EdgeSet(dd.edges, Len(dd.edges))} = {<<1, 2>>, <<2, 3>>}

\* the audit rows of an item
RowsOf(i) == {n \in DOMAIN dd.audit : dd.audit[n].dropped_id = DedupItems(dd)[i].id}

\* kept and dropped items, as the two output files show them
KeptAndDropped ==
  /\ \A n \in DOMAIN dd.clusters :
       LET c == Members(dd.clusters[n])
       IN /\ Cardinality(c \cap dd.keep) = 1
          /\ Cardinality(c) = 1 => c \subseteq dd.keep
          /\ \A i \in c \ dd.keep :
               /\ Cardinality(RowsOf(i)) = 1
               /\ \A r \in RowsOf(i) : \E k \in c \cap dd.keep :
                    dd.audit[r].kept_id = DedupItems(dd)[k].id
          /\ \A i \in c \cap dd.keep : RowsOf(i) = {}
  /\ {dd.md[n] : n \in DOMAIN dd.md} = dd.keep
  /\ Len(dd.audit) = Cardinality(ItemIds \ dd.keep)

\* C13, as claimed: when the run is over every cluster has one kept item, a
\* member of it; every other member has exactly one audit row, which names the
\* kept member of its cluster and carries the strong rule's label or the reason
\* of an edge the oracle confirmed; kept and dropped items are all the items.
C13_ClusterAudit ==
  dd.pc = "done" =>
    /\ KeptAndDropped
    /\ \A n \in DOMAIN dd.audit :
         dd.audit[n].reason \in {StrongLabel}
            \cup {e.reason : e \in EdgeSet(dd.edges, Len(dd.edges))}

\* C13, amended: the same, the reason being that of the first confirmed edge
\* that joins the dropped member and the kept one, and the label of a merge by
\* cluster when no edge joins the two.
C13_ClusterAuditOrMergeLabel ==
  dd.pc = "done" =>
    /\ KeptAndDropped
    /\ \A n \in DOMAIN dd.audit :
         LET joins == {m \in DOMAIN dd.edges :
                         {DedupItems(dd)[dd.edges[m].a].id, DedupItems(dd)[dd.edges[m].b].id}
                           = {dd.audit[n].kept_id, dd.audit[n].dropped_id}}
         IN IF joins = {} THEN dd.audit[n].reason = ClusterLabel
            ELSE \E m \in joins :
                   /\ \A k \in joins : m <= k
                   /\ dd.audit[n].reason = dd.edges[m].reason

\* a run ended with a cluster of three, one member dropped on an edge of the
\* oracle and one dropped with no edge to the kept item
C13_Witness ==
  /\ dd.pc = "done"
  /\ Len(dd.clusters) = 1
  /\ \E n \in DOMAIN dd.audit : dd.audit[n].reason = ClusterLabel
  /\ \E n \in DOMAIN dd.audit : dd.audit[n].reason \in {"same event", OracleLabel}

\* C14, as claimed: when the run is over, every failure of the oracle (a call
\* that raised, a reply that is no JSON) has its reason in the audit output;
\* and a run of failures only, with no other edge, keeps every item.
C14_OracleFailureRecorded ==
  dd.pc = "done" =>
    /\ dd.edges = <<>> => dd.keep = ItemIds
    /\ \A f \in dd.failures : \E n \in DOMAIN dd.audit : dd.audit[n].reason = f.reason

\* C15: the oracle is called at most MAX_PAIRS times in a run, never with the
\* oracle disabled, and never for a pair the strong rule accepts.
C15_OracleCallsCapped ==
  /\ dd.calls <= dd.maxPairs
  /\ ~dd.useLlm => dd.calls = 0
  /\ dd.calls = Cardinality(dd.asked)
  /\ \A n \in dd.asked : ~IsStrong(dd, dd.pairs[n + 1][1], dd.pairs[n + 1][2])

\* a run ended with MAX_PAIRS = 2 calls made, a strong pair among the first
\* pairs, and a pair the strong rule does not accept left without a call
C15_Witness ==
  /\ dd.pc = "done"
  /\ dd.useLlm /\ dd.maxPairs = 2 /\ dd.calls = 2
  /\ \E n \in DOMAIN dd.pairs :
       n - 1 \notin dd.asked /\ ~IsStrong(dd, dd.pairs[n][1], dd.pairs[n][2])
  /\ \E n \in DOMAIN dd.pairs : IsStrong(dd, dd.pairs[n][1], dd.pairs[n][2])

\* ================================================= utils/simhash_utils.py
\* The two near-duplicate passes analyze_and_bucket runs on the collected
\* items before it classifies them.

\* SIMHASH_HAMMING_THRESHOLD, the hamming_threshold of both passes
SimhashHammingThreshold == 4
\* the weight of a source the configuration does not name, in tenths
DefaultWeight == 10
\* datetime.max and datetime.min as sort keys; the dates of items are 1, 2, ...
DateMax == 1000
DateMin == 0

\* sources.yml: the weights, in tenths; s9 is not in the file
SourcesCfg == [s1 |-> [weight |-> 20], s2 |-> [weight |-> 5]]
SourceIds == {"s1", "s2", "s9"}

\* what the two passes hash and measure: with a summary, both hash title and
\* summary_raw; without one the first pass hashes the title alone and takes
\* length 0, the second hashes title and text.  A fingerprint is the set of
\* the positions of its 1 bits.
Contents ==
  { [hw |-> {},     hx |-> {},     lw |-> 10, lx |-> 10],
    [hw |-> 1 .. 4, hx |-> 1 .. 4, lw |-> 20, lx |-> 20],
    [hw |-> 1 .. 8, hx |-> 1 .. 8, lw |-> 10, lx |-> 10],
    [hw |-> {},     hx |-> 1 .. 8, lw |-> 0,  lx |-> 30] }

NearDupDates == {1, 2}

\* the item dicts collect_items returns: all of them are dated
NearDupItems ==
  { [sid |-> s, date |-> d, hw |-> c.hw, hx |-> c.hx, lw |-> c.lw, lx |-> c.lx] :
      s \in SourceIds, d \in NearDupDates, c \in Contents }

\* ENABLE_NEAR_DUP_DROP, NEAR_DUP_KEEP_POLICY, ENABLE_CROSS_SOURCE_DUP_DROP,
\* CROSS_KEEP_POLICY
NearDupCfgs ==
  { [within |-> TRUE, withinPol |-> wp, cross |-> TRUE,
     crossPol |-> "prefer_weight_then_earliest"] : wp \in {"earliest", "latest", "longest"} }
    \cup { [within |-> TRUE, withinPol |-> "earliest", cross |-> TRUE, crossPol |-> xp] :
             xp \in {"earliest", "latest", "longest"} }
    \cup { [within |-> FALSE, withinPol |-> "earliest", cross |-> TRUE,
            crossPol |-> "prefer_weight_then_earliest"],
           [within |-> TRUE, withinPol |-> "earliest", cross |-> FALSE,
            crossPol |-> "prefer_weight_then_earliest"] }

\* (a ^ b).bit_count()
Hamming64(a, b) == Cardinality((a \ b) \cup (b \ a))

\* the weight priors_for_source gives: that of the configuration, 1.0 for a
\* source it does not name
PriorsForSource(cfg, sid) ==
  IF sid \in DOMAIN cfg THEN cfg[sid].weight ELSE DefaultWeight

\* float(w or 1.0)
RowWeight(cfg, sid) ==
  IF PriorsForSource(cfg, sid) = 0 THEN DefaultWeight ELSE PriorsForSource(cfg, sid)

\* x["date"] or datetime.max, x["date"] or datetime.min
DateOrMax(d) == IF d = NullDate THEN DateMax ELSE d
DateOrMin(d) == IF d = NullDate THEN DateMin ELSE d

\* list.sort(key=..., reverse=...): before[<<i, j>>] says that the key of s[i]
\* sorts before that of s[j]; the sort is stable, with reverse=True too
StableSort(s, before) ==
  LET Rank(i) ==
        Cardinality({j \in DOMAIN s :
                       \/ before[<<j, i>>]
                       \/ ~before[<<i, j>>] /\ j < i}) + 1
  IN [k \in DOMAIN s |-> s[CHOOSE i \in DOMAIN s : Rank(i) = k]]

\* the three sorts of the within-source pass
WithinBefore(pol, x, y) ==
  CASE pol = "latest"  -> DateOrMin(x.date) > DateOrMin(y.date)
    [] pol = "longest" -> x.lw > y.lw
    [] OTHER           -> DateOrMax(x.date) < DateOrMax(y.date)

\* variant: the scan compares with every item seen, dropped or not
RECURSIVE ScanWithinAllSeen(_, _, _, _, _)
ScanWithinAllSeen(arr, n, used, kept, th) ==
  IF n > Len(arr) THEN kept
  ELSE IF \E u \in DOMAIN used : Hamming64(arr[n].hw, used[u]) <= th
    THEN ScanWithinAllSeen(arr, n + 1, Append(used, arr[n].hw), kept, th)
    ELSE ScanWithinAllSeen(arr, n + 1, Append(used, arr[n].hw), kept \cup {arr[n].pos}, th)

\* "for sid_i, hi, dti, li, iti in arr": the ids kept, from the n-th item on
RECURSIVE ScanWithin(_, _, _, _, _)
ScanWithin(arr, n, used, kept, th) ==
  IF n > Len(arr) THEN kept
  ELSE IF \E u \in DOMAIN used : Hamming64(arr[n].hw, used[u]) <= th
    THEN ScanWithin(arr, n + 1, used, kept, th)
    ELSE ScanWithin(arr, n + 1, Append(used, arr[n].hw), kept \cup {arr[n].pos}, th)

\* by_src[sid]
BySrc(items, sid) == SelectSeq(items, LAMBDA it : it.sid = sid)

\* arr after its sort
SortedSrc(items, sid, pol) ==
  LET arr == BySrc(items, sid)
  IN StableSort(arr, [p \in (DOMAIN arr) \X (DOMAIN arr) |->
                        WithinBefore(pol, arr[p[1]], arr[p[2]])])

\* the ids one source adds to kept_ids
KeptOfSource(items, sid, th, pol) ==
  IF Len(BySrc(items, sid)) <= 1
    THEN {BySrc(items, sid)[n].pos : n \in DOMAIN BySrc(items, sid)}
    ELSE ScanWithin(SortedSrc(items, sid, pol), 1, <<>>, {}, th)

\* drop_near_duplicates_within_source(items, hamming_threshold, keep_policy)
DropNearDuplicatesWithinSource(items, th, pol) ==
  SelectSeq(items,
            LAMBDA it : it.pos \in UNION {KeptOfSource(items, s, th, pol) : s \in SourceIds})

\* variant: a cross-source order that looks at the timestamps alone
AcrossBeforeNoWeight(cfg, pol, x, y) == DateOrMax(x.date) < DateOrMax(y.date)

\* the four sorts of the cross-source pass
AcrossBefore(cfg, pol, x, y) ==
  CASE pol = "latest"   -> DateOrMin(x.date) > DateOrMin(y.date)
    [] pol = "longest"  -> x.lx > y.lx
    [] pol = "earliest" -> DateOrMax(x.date) < DateOrMax(y.date)
    [] OTHER ->
         \/ RowWeight(cfg, x.sid) > RowWeight(cfg, y.sid)
         \/ /\ RowWeight(cfg, x.sid) = RowWeight(cfg, y.sid)
            /\ DateOrMax(x.date) < DateOrMax(y.date)

\* enriched after its sort
SortedAcross(items, cfg, pol) ==
  StableSort(items, [p \in (DOMAIN items) \X (DOMAIN items) |->
                       AcrossBefore(cfg, pol, items[p[1]], items[p[2]])])

\* "for row in enriched": the list kept, from the n-th row on
RECURSIVE ScanAcross(_, _, _, _, _)
ScanAcross(rows, n, used, kept, th) ==
  IF n > Len(rows) THEN kept
  ELSE IF \E u \in DOMAIN used : Hamming64(rows[n].hx, used[u]) <= th
    THEN ScanAcross(rows, n + 1, used, kept, th)
    ELSE ScanAcross(rows, n + 1, Append(used, rows[n].hx), Append(kept, rows[n]), th)

\* drop_near_duplicates_across_sources(items, sources_cfg, hamming_threshold,
\* keep_policy)
DropNearDuplicatesAcrossSources(items, cfg, th, pol) ==
  ScanAcross(SortedAcross(items, cfg, pol), 1, <<>>, <<>>, th)

\* analyze_and_bucket is called with three items; pos is the identity of the
\* dict, id(it)
NearDupInputs ==
  { [pc |-> "within", cfg |-> c,
     items |-> [n \in ItemIds |->
                  [pos |-> n, sid |-> its[n].sid, date |-> its[n].date,
                   hw |-> its[n].hw, hx |-> its[n].hx, lw |-> its[n].lw, lx |-> its[n].lx]],
     worder |-> <<>>, mid |-> <<>>, xorder |-> <<>>, out |-> <<>>] :
      c \in NearDupCfgs, its \in [ItemIds -> NearDupItems] }

InitNearDup ==
  /\ StoreOff
  /\ dd = NoBatch
  /\ nd \in NearDupInputs
  /\ cl = NoBatch
  /\ an = NoBatch
  /\ rn = NoBatch

\* "if ENABLE_NEAR_DUP_DROP: items = drop_near_duplicates_within_source(...)"
WithinPass ==
  /\ nd.pc = "within"
  /\ nd' = [nd EXCEPT
              !.worder = IF nd.cfg.within
                           THEN [s \in SourceIds |-> SortedSrc(nd.items, s, nd.cfg.withinPol)]
                           ELSE <<>>,
              !.mid = IF nd.cfg.within
                        THEN DropNearDuplicatesWithinSource(
                               nd.items, SimhashHammingThreshold, nd.cfg.withinPol)
                        ELSE nd.items,
              !.pc = "across"]
  /\ UNCHANGED <<storeVars, dd, cl, an, rn>>

\* "if ENABLE_CROSS_SOURCE_DUP_DROP: items =
\* drop_near_duplicates_across_sources(...)"
AcrossPass ==
  /\ nd.pc = "across"
  /\ nd' = [nd EXCEPT
              !.xorder = IF nd.cfg.cross
                           THEN SortedAcross(nd.mid, SourcesCfg, nd.cfg.crossPol)
                           ELSE <<>>,
              !.out = IF nd.cfg.cross
                        THEN DropNearDuplicatesAcrossSources(
                               nd.mid, SourcesCfg, SimhashHammingThreshold, nd.cfg.crossPol)
                        ELSE nd.mid,
              !.pc = "done"]
  /\ UNCHANGED <<storeVars, dd, cl, an, rn>>

NextNearDup ==
  \/ WithinPass
  \/ AcrossPass

SpecNearDup == InitNearDup /\ [][NextNearDup]_vars

\* the identities of the items of a list
PosOf(s) == {s[n].pos : n \in DOMAIN s}

\* the weight the configuration declares for a source, 1.0 when it names none
DeclaredWeight(sid) ==
  CASE sid = "s1" -> 20
    [] sid = "s2" -> 5
    [] OTHER      -> 10

\* C16: after the within-source pass, the items of each source have been
\* scanned in the order of the keep policy (oldest first, newest first or
\* longest first), and an item is dropped exactly when its fingerprint is within
\* the threshold of that of an item of its source kept earlier in the scan; so
\* the survivors of a source are pairwise farther apart than the threshold, the
\* first item of a source in the order is kept, a source with one item keeps
\* it, and no item is dropped because of another source.
C16_WithinSourceScan ==
  (nd.pc \in {"across", "done"} /\ nd.cfg.within) =>
    LET kept == PosOf(nd.mid)
        Near(x, y) == Hamming64(x.hw, y.hw) <= SimhashHammingThreshold
    IN /\ kept \subseteq PosOf(nd.items)
       /\ \A s \in SourceIds :
            LET arr == nd.worder[s]
                mine == {n \in DOMAIN nd.items : nd.items[n].sid = s}
            IN /\ {arr[n] : n \in DOMAIN arr} = {nd.items[n] : n \in mine}
               /\ Len(arr) = Cardinality(mine)
               /\ \A a \in DOMAIN arr, b \in DOMAIN arr :
                    a < b =>
                      CASE nd.cfg.withinPol = "latest"  -> arr[a].date >= arr[b].date
                        [] nd.cfg.withinPol = "longest" -> arr[a].lw >= arr[b].lw
                        [] OTHER                        -> arr[a].date <= arr[b].date
               /\ \A n \in DOMAIN arr :
                    arr[n].pos \notin kept
                      <=> \E m \in DOMAIN arr :
                            m < n /\ arr[m].pos \in kept /\ Near(arr[m], arr[n])
               /\ \A a \in DOMAIN arr, b \in DOMAIN arr :
                    (a # b /\ arr[a].pos \in kept /\ arr[b].pos \in kept)
                      => ~Near(arr[a], arr[b])
               /\ arr # <<>> => arr[1].pos \in kept

\* three items of one source: the second of the scan is dropped for the first,
\* the third is within the threshold of the dropped one only and is kept
C16_Witness ==
  /\ nd.pc = "across" /\ nd.cfg.within
  /\ \E s \in SourceIds :
       /\ Len(nd.worder[s]) = 3
       /\ PosOf(nd.mid) = {nd.worder[s][1].pos, nd.worder[s][3].pos}
       /\ Hamming64(nd.worder[s][2].hw, nd.worder[s][3].hw) <= SimhashHammingThreshold

\* C17: under prefer_weight_then_earliest the cross-source pass scans the items
\* by descending source weight, the oldest first among equal weights, a source
\* the configuration does not name counting 1.0; every item it drops is within
\* the threshold of a kept item of a heavier source, or of a source of the same
\* weight with a timestamp that is not later.
C17_CrossSourceWeightOrder ==
  (nd.pc = "done" /\ nd.cfg.cross /\ nd.cfg.crossPol = "prefer_weight_then_earliest") =>
    /\ PosOf(nd.xorder) = PosOf(nd.mid) /\ Len(nd.xorder) = Len(nd.mid)
    /\ \A a \in DOMAIN nd.xorder, b \in DOMAIN nd.xorder :
         a < b =>
           \/ DeclaredWeight(nd.xorder[a].sid) > DeclaredWeight(nd.xorder[b].sid)
           \/ /\ DeclaredWeight(nd.xorder[a].sid) = DeclaredWeight(nd.xorder[b].sid)
              /\ nd.xorder[a].date <= nd.xorder[b].date
    /\ PosOf(nd.out) \subseteq PosOf(nd.mid)
    /\ \A n \in DOMAIN nd.mid :
         nd.mid[n].pos \notin PosOf(nd.out) =>
           \E k \in DOMAIN nd.out :
             /\ Hamming64(nd.out[k].hx, nd.mid[n].hx) <= SimhashHammingThreshold
             /\ \/ DeclaredWeight(nd.out[k].sid) > DeclaredWeight(nd.mid[n].sid)
                \/ /\ DeclaredWeight(nd.out[k].sid) = DeclaredWeight(nd.mid[n].sid)
                   /\ nd.out[k].date <= nd.mid[n].date

\* an item of the unnamed source s9 is kept and an older item of s2 (weight
\* 0.5) is dropped for it, while a newer item of s1 (weight 2.0) is kept before
\* both
C17_Witness ==
  /\ nd.pc = "done" /\ nd.cfg.cross /\ nd.cfg.crossPol = "prefer_weight_then_earliest"
  /\ \E k \in DOMAIN nd.out, n \in DOMAIN nd.mid :
       /\ nd.out[k].sid = "s9" /\ nd.mid[n].sid = "s2"
       /\ nd.mid[n].pos \notin PosOf(nd.out)
       /\ nd.mid[n].date < nd.out[k].date
  /\ nd.out[1].sid = "s1" /\ nd.out[1].date = 2

\* ==================================== llm/analyze_article.py, bucketizer.py
\* The loop body of analyze_and_bucket for one item: the ad filter, the
\* analysis, the posterior category, the market-data override, the upsert and
\* the bucket.  Scores are counted in 1/10000, confidences in hundredths,
\* weights in tenths.

\* HARD_WEIGHT, 3.0
HardWeight == 30
\* base = {...: 0.25}
BaseScore == 2500
\* float(confid or 0.6)
DefaultConfid == 60
\* 0.15 * max(0.0, min(c, 1.0)): per hundredth of confidence
ConfidGain == 15
\* 0.12 * max(0.5, min(weight, 4.0)): per tenth of weight
BiasGain == 120
WeightLo == 5
WeightHi == 40

\* the keys of base, in the order the dict holds them
Cats == <<"news", "product", "market", "method">>
CatSet == {Cats[i] : i \in DOMAIN Cats}
\* the keys of the dict the override returns
OverrideCats == {"news", "product", "method"}

\* An expertise tag is the set of the markers its text holds: "news" for the
\* headline marker, "product" for the product marker, "method" for the method
\* or methodology marker, "market" for the market-data marker; a tag with no
\* marker is any other text.
ExpertTags ==
  { {"news"}, {"product"}, {"method"}, {"market"}, {}, {"news", "product"} }

ExpertLists ==
  {<<>>} \cup {<<e>> : e \in ExpertTags}
         \cup {<<e, f>> : e \in ExpertTags, f \in ExpertTags}

\* trust weights: 0.3, 1.0, 2.9, 3.0, 5.0
Weights == {3, 10, 29, 30, 50}

\* the confidence of the analysis: none or 0, within [0,1], above and below
Confids == {0, 55, 100, 150, -50}

\* the tags of the analysis: the market-data tag, the tag "market", another
MarketDataTag == "market data"
ResTags == { {}, {MarketDataTag}, {"market"}, {"other"} }

Regions == {"cn", "none"}

\* res of analyze_article_llm: the category is one of the allowed ones
AnalyzeResults ==
  { [category |-> c, confid |-> k, tags |-> t, region |-> r] :
      c \in CatSet \cup {"ignore"}, k \in Confids, t \in ResTags, r \in Regions }

Clamp(x, lo, hi) == IF x < lo THEN lo ELSE IF x > hi THEN hi ELSE x

\* variant: the override asks for a weight above the threshold
HardOverrideStrict(expert, weight) ==
  expert # <<>> /\ Len(expert) = 1 /\ weight > HardWeight

\* "if expert and len(expert) == 1 and weight >= HARD_WEIGHT"
HardOverride(expert, weight) ==
  expert # <<>> /\ Len(expert) = 1 /\ weight >= HardWeight

\* the three tests on e = expert[0]; "none" when none of them holds
OverrideCat(e) ==
  IF "news" \in e THEN "news"
  ELSE IF "product" \in e THEN "product"
  ELSE IF "method" \in e THEN "method"
  ELSE "none"

\* the distribution the override returns
OneHot(c) == [num |-> [k \in OverrideCats |-> IF k = c THEN 1 ELSE 0], den |-> 1]

\* the if/elif chain of the loop over the expertise tags
BiasCat(e) ==
  IF "news" \in e THEN "news"
  ELSE IF "product" \in e THEN "product"
  ELSE IF "method" \in e THEN "method"
  ELSE IF "market" \in e THEN "market"
  ELSE "none"

\* base before it is normalised
BaseScores(llm_cat, confid, expert, weight) ==
  LET c == IF confid = 0 THEN DefaultConfid ELSE confid
      bias_unit == BiasGain * Clamp(weight, WeightLo, WeightHi)
  IN [k \in CatSet |->
        BaseScore
          + (IF k = llm_cat THEN ConfidGain * Clamp(c, 0, 100) ELSE 0)
          + bias_unit * Cardinality({i \in DOMAIN expert : BiasCat(expert[i]) = k})]

RECURSIVE SumScores(_, _)
SumScores(base, i) == IF i > Len(Cats) THEN 0 ELSE base[Cats[i]] + SumScores(base, i + 1)

\* variant: the scores are left as they are, over the sum of the uniform prior
NormalizeNone(base) == [num |-> base, den |-> 4 * BaseScore]

\* "s = sum(base.values()) or 1.0; base[k] /= s": each score as the fraction
\* num[k] / den
Normalize(base) ==
  [num |-> base, den |-> IF SumScores(base, 1) = 0 THEN 1 ELSE SumScores(base, 1)]

\* variant: the last of the largest
ArgMaxLast(dist) ==
  Cats[CHOOSE i \in DOMAIN Cats :
         /\ \A j \in DOMAIN Cats : dist.num[Cats[j]] <= dist.num[Cats[i]]
         /\ \A j \in DOMAIN Cats : j > i => dist.num[Cats[j]] < dist.num[Cats[i]]]

\* max(base.items(), key=lambda x: x[1])[0]: the first of the largest
ArgMax(dist) ==
  Cats[CHOOSE i \in DOMAIN Cats :
         /\ \A j \in DOMAIN Cats : dist.num[Cats[j]] <= dist.num[Cats[i]]
         /\ \A j \in DOMAIN Cats : j < i => dist.num[Cats[j]] < dist.num[Cats[i]]]

\* posterior_category_with_priors(llm_cat, confid, expert, weight)
PosteriorCategoryWithPriors(llm_cat, confid, expert, weight) ==
  IF HardOverride(expert, weight) /\ OverrideCat(expert[1]) # "none"
    THEN [cat |-> OverrideCat(expert[1]), dist |-> OneHot(OverrideCat(expert[1]))]
    ELSE LET dist == Normalize(BaseScores(llm_cat, confid, expert, weight))
         IN [cat |-> ArgMax(dist), dist |-> dist]

\* variant: the market-data tag moves a product item only
TagOverrideProductOnly(final_cat, tags) ==
  IF final_cat = "product" /\ ({MarketDataTag, "market"} \cap tags) # {}
    THEN "market" ELSE final_cat

\* "if final_cat in ("product", "method") and ({market data, "market"} & tags)"
TagOverride(final_cat, tags) ==
  IF final_cat \in {"product", "method"} /\ ({MarketDataTag, "market"} \cap tags) # {}
    THEN "market" ELSE final_cat

\* variant: the news are not split by region
BucketOfNewsTogether(final_cat, region) ==
  IF final_cat = "news" THEN "news_cn"
  ELSE IF final_cat = "market" THEN "market"
  ELSE IF final_cat = "product" THEN "product"
  ELSE "method"

\* the bucket of an accepted item
BucketOf(final_cat, region) ==
  IF final_cat = "news" THEN (IF region = "cn" THEN "news_cn" ELSE "news_overseas")
  ELSE IF final_cat = "market" THEN "market"
  ELSE IF final_cat = "product" THEN "product"
  ELSE "method"

BucketNames == {"news_cn", "news_overseas", "product", "method", "market"}

\* the item of the loop, as dwd_upsert reads it
ClassifiedItem(category) ==
  [url_norm |-> "a", link |-> "a", source_id |-> "s1", category |-> category,
   summary |-> 0, date |-> FirstDay]

\* one item of source s1 enters the loop; the configuration gives s1 its
\* expertise list and its weight, the analysis will give res
ClassifyInputs ==
  { [pc |-> "filter", res |-> r, expert |-> e, weight |-> w,
     post |-> [cat |-> "none", dist |-> OneHot("none")], final |-> "none",
     status |-> "none", buckets |-> [b \in BucketNames |-> <<>>]] :
      r \in AnalyzeResults, e \in ExpertLists, w \in Weights }

InitClassify ==
  /\ StoreOff
  /\ dd = NoBatch
  /\ nd = NoBatch
  /\ cl \in ClassifyInputs
  /\ an = NoBatch
  /\ rn = NoBatch

\* "if _score >= AD_SCORE_THRESHOLD: dwd_upsert(it, valid=3); continue", the
\* item carrying no category yet
AdFilter ==
  /\ cl.pc = "filter"
  /\ \E ad \in BOOLEAN :
       IF ad
         THEN /\ dwd' = DwdUpsert(dwd, ClassifiedItem(NullStr), 3)
              /\ cl' = [cl EXCEPT !.pc = "done", !.status = "ad"]
         ELSE /\ dwd' = dwd
              /\ cl' = [cl EXCEPT !.pc = "analyze"]
  /\ UNCHANGED <<raw, dws, ads, now, pc, call, work, pre, hist, fresh, ops, dd, nd, an, rn>>

\* res = analyze_article_llm(...); "if ENABLE_LLM_IGNORE and res category is
\* ignore: dwd_upsert(it, valid=4); continue"
Analyze ==
  /\ cl.pc = "analyze"
  /\ IF cl.res.category = "ignore"
       THEN /\ dwd' = DwdUpsert(dwd, ClassifiedItem(NullStr), 4)
            /\ cl' = [cl EXCEPT !.pc = "done", !.status = "ignore"]
       ELSE /\ dwd' = dwd
            /\ cl' = [cl EXCEPT !.pc = "classify"]
  /\ UNCHANGED <<raw, dws, ads, now, pc, call, work, pre, hist, fresh, ops, dd, nd, an, rn>>

\* the rest of the loop body: the posterior category, the override by the
\* tags, it["category"], dwd_upsert(it, valid=1) and the bucket
Classify ==
  /\ cl.pc = "classify"
  /\ LET post == PosteriorCategoryWithPriors(
                   cl.res.category, cl.res.confid, cl.expert, cl.weight)
         final == TagOverride(post.cat, cl.res.tags)
         it == ClassifiedItem(final)
     IN /\ dwd' = DwdUpsert(dwd, it, 1)
        /\ cl' = [cl EXCEPT
                    !.post = post, !.final = final, !.status = "kept", !.pc = "done",
                    !.buckets = [@ EXCEPT ![BucketOf(final, cl.res.region)] = Append(@, it)]]
  /\ UNCHANGED <<raw, dws, ads, now, pc, call, work, pre, hist, fresh, ops, dd, nd, an, rn>>

NextClassify ==
  \/ AdFilter
  \/ Analyze
  \/ Classify

SpecClassify == InitClassify /\ [][NextClassify]_vars

\* the item went through the posterior classifier
Classified == cl.pc = "done" /\ cl.status = "kept"

\* the distribution gives 1 to c and 0 to every other key
IsOneHot(dist, c) ==
  /\ c \in DOMAIN dist.num
  /\ \A k \in DOMAIN dist.num : dist.num[k] = (IF k = c THEN dist.den ELSE 0)

\* C18, as claimed: a source with exactly one expertise tag and a weight at or
\* above the threshold gets a category whose score is 1 while every other score
\* is 0, whatever the raw label and the confidence; the category is news for a
\* headline tag, product for a product tag, method for a method tag.
C18_HardOverride ==
  (Classified /\ Len(cl.expert) = 1 /\ cl.weight >= HardWeight) =>
    /\ IsOneHot(cl.post.dist, cl.post.cat)
    /\ cl.expert[1] = {"news"} => cl.post.cat = "news"
    /\ cl.expert[1] = {"product"} => cl.post.cat = "product"
    /\ cl.expert[1] = {"method"} => cl.post.cat = "method"

\* C18, amended: the same for a tag that carries the headline, the product or
\* the method marker (in that order of precedence), with a distribution over
\* news, product and method; a single tag that carries none of the three is not
\* overridden and gets the four scores of the soft blend.
C18_HardOverrideMappedTags ==
  (Classified /\ Len(cl.expert) = 1 /\ cl.weight >= HardWeight) =>
    LET e == cl.expert[1]
    IN IF e \cap OverrideCats # {}
         THEN /\ cl.post.cat = (IF "news" \in e THEN "news"
                                ELSE IF "product" \in e THEN "product" ELSE "method")
              /\ DOMAIN cl.post.dist.num = OverrideCats
              /\ cl.post.dist.den = 1
              /\ IsOneHot(cl.post.dist, cl.post.cat)
         ELSE /\ DOMAIN cl.post.dist.num = CatSet
              /\ \A k \in CatSet : 0 < cl.post.dist.num[k] /\ cl.post.dist.num[k] < cl.post.dist.den

\* the scenario of the specification: expertise of one headline tag, weight
\* 5.0, threshold 3.0, a raw label product held with full confidence
C18_Witness ==
  /\ Classified
  /\ cl.expert = <<{"news"}>> /\ cl.weight = 50 /\ HardWeight = 30
  /\ cl.res.category = "product" /\ cl.res.confid = 100
  /\ cl.post.cat = "news"
  /\ cl.post.dist.num = [k \in OverrideCats |-> IF k = "news" THEN 1 ELSE 0]

\* the override path was taken
Overridden ==
  /\ Len(cl.expert) = 1 /\ cl.weight >= HardWeight
  /\ cl.expert[1] \cap OverrideCats # {}

\* C19: outside the override path the distribution has the four categories as
\* keys, no score is negative and the scores sum to 1; under the override path
\* one score is 1 and the others are 0.
C19_PosteriorNormalized ==
  Classified =>
    IF Overridden
      THEN /\ cl.post.dist.den = 1
           /\ Cardinality({k \in DOMAIN cl.post.dist.num : cl.post.dist.num[k] = 1}) = 1
           /\ \A k \in DOMAIN cl.post.dist.num : cl.post.dist.num[k] \in {0, 1}
      ELSE /\ DOMAIN cl.post.dist.num = CatSet
           /\ cl.post.dist.den > 0
           /\ \A k \in CatSet : cl.post.dist.num[k] >= 0
           /\ SumScores(cl.post.dist.num, 1) = cl.post.dist.den

\* a soft blend with a confidence above 1, a weight below the clamp and two
\* expertise tags, one of them with no marker
C19_Witness ==
  /\ Classified /\ ~Overridden
  /\ cl.res.confid = 150 /\ cl.weight = 3
  /\ cl.expert = <<{"market"}, {}>>
  /\ cl.post.dist.den = 4 * BaseScore + ConfidGain * 100 + BiasGain * WeightLo

\* C20: an item resolved to product or method whose tags hold the market-data
\* tag is stored and bucketed as market, also when the override path resolved
\* it; an item resolved to news or market keeps its category whatever its tags.
C20_MarketTagOverride ==
  Classified =>
    /\ (cl.post.cat \in {"product", "method"}
          /\ (cl.res.tags \cap {MarketDataTag, "market"}) # {})
         => /\ cl.final = "market"
            /\ Len(cl.buckets["market"]) = 1
            /\ \A b \in BucketNames \ {"market"} : cl.buckets[b] = <<>>
    /\ cl.post.cat \in {"news", "market"} => cl.final = cl.post.cat
    /\ Len(dwd) = 1 /\ dwd[1].category = cl.final /\ dwd[1].valid = Accepted
    /\ \E b \in BucketNames : Len(cl.buckets[b]) = 1 /\ cl.buckets[b][1].category = cl.final

\* a method item of the override path that carries the market-data tag ends in
\* the market bucket
C20_Witness ==
  /\ Classified /\ Overridden
  /\ cl.post.cat = "method" /\ MarketDataTag \in cl.res.tags
  /\ cl.final = "market"
  /\ dwd[1].category = "market"
  /\ Len(cl.buckets["market"]) = 1

\* ------------------------------------------ post_process_dedup.py, again
\* the candidate pairs of the same host with a Jaccard of 0.8 or more, as edges
StrongPairs ==
  { [a |-> k[1], b |-> k[2]] :
      k \in {q \in PairKeys : /\ IsCandidate(dd, q[1], q[2])
                              /\ dd.host[q[1]] = dd.host[q[2]]
                              /\ dd.sim[q].jac >= StrongJaccardPct} }

\* the edges of the run, without their reasons
EdgePairs == {[a |-> e.a, b |-> e.b] : e \in EdgeSet(dd.edges, Len(dd.edges))}

\* C25, as claimed: an edge made without the oracle joins a candidate pair of
\* the same host with a Jaccard of 0.8 or more; with the oracle disabled there
\* is no other edge, and two items that no chain of such pairs joins are both
\* kept.
C25_StrongRuleOnly ==
  (dd.pc = "done" /\ ~dd.useLlm) =>
    /\ EdgePairs = StrongPairs
    /\ \A i \in ItemIds, j \in ItemIds :
         (i # j /\ j \notin Reach(StrongPairs, {i})) => (i \in dd.keep /\ j \in dd.keep)

\* C25, amended: the same edges; two items that no chain of such pairs joins
\* are in different clusters, and an item that is in no such pair is kept.  With
\* the oracle enabled the edges with the strong rule's label are those pairs.
C25_StrongRuleSeparates ==
  dd.pc = "done" =>
    /\ {[a |-> e.a, b |-> e.b] :
          e \in {x \in EdgeSet(dd.edges, Len(dd.edges)) : x.reason = StrongLabel}}
         = StrongPairs
    /\ ~dd.useLlm =>
         /\ EdgePairs = StrongPairs
         /\ dd.calls = 0
         /\ \A i \in ItemIds, j \in ItemIds :
              (i # j /\ j \notin Reach(StrongPairs, {i})) =>
                ~\E n \in DOMAIN dd.clusters :
                    i \in Members(dd.clusters[n]) /\ j \in Members(dd.clusters[n])
         /\ \A i \in ItemIds : Reach(StrongPairs, {i}) = {i} => i \in dd.keep

\* the oracle is off; items 1 and 2 are a strong pair, item 3 is on the host of
\* item 1 with a Jaccard above the threshold of the candidates but below 0.8:
\* one of 1 and 2 is dropped, item 3 is kept
C25_Witness ==
  /\ dd.pc = "done" /\ ~dd.useLlm
  /\ StrongPairs = {[a |-> 1, b |-> 2]}
  /\ dd.host[1] = dd.host[3] /\ dd.sim[<<1, 3>>].jac = 70
  /\ Cardinality(dd.keep) = 2 /\ 3 \in dd.keep

\* the day of the year a line is dated, 0 for a line without a date
DayOfYear(md) == 31 * md[1] + md[2]

\* one date is strictly before the other, both being written
Earlier(x, y) == dd.date[x][1] # 0 /\ dd.date[y][1] # 0 /\ DayOfYear(dd.date[x]) < DayOfYear(dd.date[y])

\* C26, as claimed: in every cluster, under earliest no dropped member is dated
\* strictly before the kept one, under latest none is dated strictly after it,
\* under longest none has a strictly longer normalized text.
C26_KeepPolicy ==
  dd.pc = "done" =>
    \A n \in DOMAIN dd.clusters :
      \A k \in Members(dd.clusters[n]) \cap dd.keep :
        \A i \in Members(dd.clusters[n]) \ dd.keep :
          CASE dd.keepPol = "latest"  -> ~Earlier(k, i)
            [] dd.keepPol = "longest" -> ~(dd.len[i] > dd.len[k])
            [] OTHER                  -> ~Earlier(i, k)

\* ------------------------------------------- the soft blend, in detail
\* C27: outside the override path no category scores more than the final one,
\* and among the categories of the highest score the final one is the first in
\* the order news, product, market, method.
C27_ArgMaxFirstInOrder ==
  (Classified /\ ~Overridden) =>
    LET score == cl.post.dist.num
        before == [c \in CatSet |->
                     CASE c = "news"    -> {}
                       [] c = "product" -> {"news"}
                       [] c = "market"  -> {"news", "product"}
                       [] OTHER         -> {"news", "product", "market"}]
    IN /\ cl.post.cat \in CatSet
       /\ \A k \in CatSet : score[k] <= score[cl.post.cat]
       /\ \A k \in before[cl.post.cat] : score[k] < score[cl.post.cat]

\* a raw label method held with a confidence below 0 and no expertise: the four
\* scores are equal and the category is news
C27_Witness ==
  /\ Classified /\ ~Overridden
  /\ cl.res.category = "method" /\ cl.res.confid = -50 /\ cl.expert = <<>>
  /\ \A k \in CatSet : cl.post.dist.num[k] = BaseScore
  /\ cl.post.cat = "news"

\* C28, as claimed: before the scores are normalised the raw label's category
\* has received 0.15 x clamp(confidence, 0, 1), nothing for a confidence of 0
\* and 0.15 for a confidence of 1 or more, and each expertise tag has added
\* 0.12 x clamp(weight, 0.5, 4.0) to the category it matches.
C28_BlendAmounts ==
  (Classified /\ ~Overridden) =>
    \A k \in CatSet :
      cl.post.dist.num[k] =
        BaseScore
          + (IF k = cl.res.category
               THEN ConfidGain * (IF cl.res.confid < 0 THEN 0
                                  ELSE IF cl.res.confid > 100 THEN 100 ELSE cl.res.confid)
               ELSE 0)
          + BiasGain * (IF cl.weight < WeightLo THEN WeightLo
                        ELSE IF cl.weight > WeightHi THEN WeightHi ELSE cl.weight)
              * Cardinality({i \in DOMAIN cl.expert : BiasCat(cl.expert[i]) = k})

\* ================================ analyze_article_llm and utils/cache_utils.py
\* The analyses of one article (same title, text and source) over time, with
\* the cache file of its hash.

\* the analyses made and the hours that pass
MaxAnalyses == 3
MaxHours == 2

\* {"category": 0.6, ...}, {"category": 0.55, ...}, {"category": 0.5, ...}: the
\* confidence of a result without one, of the keyword result, of the result
\* put in place of a failed call, in hundredths
LlmDefaultConfid == 60
KeywordConfid == 55
FailureConfid == 50

\* what the words of title and text hit in the keyword lists of lines 31-42
TextProfiles ==
  { {}, {"newsKw"}, {"productKw", "cnKw"}, {"newsKw", "productKw", "overseasKw"} }

\* CACHE_TTL_HOURS
CacheTtls == {0, 1}

\* what the chat completion gives: an exception; text that is no JSON; JSON
\* that is no object; an object whose category is a number; an object
AnalyzeReplies ==
  {[kind |-> k, category |-> "", region |-> "", tags |-> {}] :
     k \in {"error", "garbage", "scalar", "badfield"}}
    \cup {[kind |-> "object", category |-> c, region |-> r, tags |-> t] :
            c \in {"News", "ignore", "other"}, r \in {"cn", "mars"},
            t \in {{}, {MarketDataTag}}}

\* the branch "if not USE_LLM": category and region from the keywords
KeywordResult(words) ==
  [category |-> IF "newsKw" \in words THEN "news"
                ELSE IF "productKw" \in words THEN "product" ELSE "method",
   region |-> IF "cnKw" \in words THEN "cn"
              ELSE IF "overseasKw" \in words THEN "overseas" ELSE "none",
   confid |-> KeywordConfid, tags |-> {}]

\* data of the except branch, as lines 101-135 then pass it on
FailureResult(words) ==
  [category |-> "method", region |-> "none", confid |-> FailureConfid, tags |-> {}]

\* str.lower() on the categories of the replies
LowerCat(c) == IF c = "News" THEN "news" ELSE c

\* lines 101-135 on an object: the category and the region are checked
CheckedResult(reply) ==
  [category |-> IF LowerCat(reply.category) \in CatSet \cup {"ignore"}
                  THEN LowerCat(reply.category)
                  ELSE IF MarketDataTag \in reply.tags THEN "market" ELSE "method",
   region |-> IF reply.region \in {"cn", "overseas", "none"} THEN reply.region ELSE "none",
   confid |-> LlmDefaultConfid, tags |-> reply.tags]

NoResult == [category |-> "", region |-> "", confid |-> 0, tags |-> {}]
NoFile == [has |-> FALSE, data |-> NoResult, mtime |-> 0]

\* cache_get: the file's content, unless the cache is off, the file is missing
\* or it is older than the time to live
CacheHit(st) ==
  /\ st.cacheOn
  /\ st.file.has
  /\ ~(st.ttl > 0 /\ st.clock - st.file.mtime > st.ttl)

\* the file after cache_get: a file past its time to live is unlinked
AfterGet(st) ==
  IF st.cacheOn /\ st.file.has /\ ~CacheHit(st) THEN NoFile ELSE st.file

\* cache_set(title, text, source_id, data)
CacheSet(st, data) ==
  IF st.cacheOn THEN [has |-> TRUE, data |-> data, mtime |-> st.clock] ELSE AfterGet(st)

\* analyze_article_llm(it, ...): where the answer came from, whether the
\* classifier was called, whether the function raised, the result and the file
AnalyzeArticleLlm(st, reply) ==
  IF CacheHit(st)
    THEN [src |-> "cache", called |-> FALSE, raised |-> FALSE, reply |-> "none",
          result |-> st.file.data, file |-> st.file]
  ELSE IF ~st.useLlm
    THEN [src |-> "keywords", called |-> FALSE, raised |-> FALSE, reply |-> "none",
          result |-> KeywordResult(st.words),
          file |-> CacheSet(st, KeywordResult(st.words))]
  ELSE IF reply.kind \in {"error", "garbage"}
    THEN [src |-> "failure", called |-> TRUE, raised |-> FALSE, reply |-> reply.kind,
          result |-> FailureResult(st.words),
          file |-> CacheSet(st, FailureResult(st.words))]
  ELSE IF reply.kind \in {"scalar", "badfield"}
    THEN [src |-> "none", called |-> TRUE, raised |-> TRUE, reply |-> reply.kind,
          result |-> NoResult, file |-> AfterGet(st)]
  ELSE [src |-> "llm", called |-> TRUE, raised |-> FALSE, reply |-> reply.kind,
        result |-> CheckedResult(reply), file |-> CacheSet(st, CheckedResult(reply))]

NoAnalysis ==
  [src |-> "none", called |-> FALSE, raised |-> FALSE, reply |-> "none", result |-> NoResult]

InitAnalyze ==
  /\ StoreOff
  /\ dd = NoBatch /\ nd = NoBatch /\ cl = NoBatch /\ rn = NoBatch
  /\ an \in { [useLlm |-> u, cacheOn |-> c, ttl |-> t, words |-> w, clock |-> 0, n |-> 0,
               file |-> NoFile, last |-> NoAnalysis, prev |-> NoAnalysis, aged |-> FALSE] :
                u \in BOOLEAN, c \in BOOLEAN, t \in CacheTtls, w \in TextProfiles }

\* one call of analyze_article_llm on the article; aged says that this call
\* found a file older than the time to live
AnalyzeItem ==
  /\ an.n < MaxAnalyses
  /\ ~an.last.raised
  /\ \E reply \in AnalyzeReplies :
       LET out == AnalyzeArticleLlm(an, reply)
       IN an' = [an EXCEPT
                   !.n = @ + 1, !.file = out.file, !.prev = an.last,
                   !.aged = an.cacheOn /\ an.file.has /\ ~CacheHit(an),
                   !.last = [src |-> out.src, called |-> out.called, raised |-> out.raised,
                             reply |-> out.reply, result |-> out.result]]
  /\ UNCHANGED <<storeVars, dd, nd, cl, rn>>

\* an hour passes
HourPasses ==
  /\ an.clock < MaxHours
  /\ an' = [an EXCEPT !.clock = @ + 1]
  /\ UNCHANGED <<storeVars, dd, nd, cl, rn>>

NextAnalyze ==
  \/ AnalyzeItem
  \/ HourPasses

SpecAnalyze == InitAnalyze /\ [][NextAnalyze]_vars

\* C23, as claimed: an analysis whose classifier call failed, or gave anything
\* but the object asked for, does not raise and answers with the category and
\* the region the keywords of title and text give.
C23_FailureFallsBackToKeywords ==
  (an.last.called /\ an.last.reply # "object") =>
    /\ ~an.last.raised
    /\ an.last.result.category = KeywordResult(an.words).category
    /\ an.last.result.region = KeywordResult(an.words).region

\* C29, as claimed: with the cache on, the analysis that follows one whose call
\* failed, within the time to live, calls the classifier again.
C29_FailureNotServedFromCache ==
  (an.cacheOn /\ an.n >= 2 /\ an.prev.src = "failure" /\ ~an.aged) => an.last.called

\* ===================================== generate_report.main, up to the buckets
\* One run: load_ids, the fetch of each feed, the rest of collect_items, then
\* analyze_and_bucket. The switches ENABLE_NEAR_DUP_DROP,
\* ENABLE_CROSS_SOURCE_DUP_DROP, ENABLE_AD_SCORE_FILTER and ENABLE_LLM_IGNORE
\* have their defaults (on), the keep policies too, and the API key is set.

\* DAYS_BACK, MIN_TEXT_LENGTH, AD_SCORE_THRESHOLD
DaysBack == 7
MinTextLength == 200
AdScoreThreshold == 5

\* config/sources.yml: no file, a file yaml cannot load, an empty file, a file
\* without weights, the file of SourcesCfg
CfgKinds == {"missing", "unreadable", "empty", "noweights", "ok"}

\* load_sources_cfg(): {} unless the file is there and loads
LoadSourcesCfg(kind) ==
  [loaded |-> kind \in {"noweights", "ok"},
   weights |-> IF kind = "ok" THEN <<"s1", "s2">> ELSE <<>>]

\* variant: without weights the run goes on with the sources it knows
LoadIdsDefaultIds(kind) ==
  [halt |-> FALSE, ids |-> <<"s1", "s2">>]

\* load_ids(): SystemExit when there are no weights, else their keys
LoadIds(kind) ==
  [halt |-> LoadSourcesCfg(kind).weights = <<>>, ids |-> LoadSourcesCfg(kind).weights]

\* the entries of the feeds: link, date, plain_text_len of the text, ad_score
\* of title and text, and what the two near-duplicate passes hash and measure.
\* With an empty title, summary and content the text is the title, "".
FeedEntries ==
  { [link |-> "a",   date |-> FirstDay,     plen |-> 300, ad |-> 0, hw |-> {},     lw |-> 10],
    [link |-> "a?x", date |-> FirstDay,     plen |-> 300, ad |-> 0, hw |-> 17 .. 24, lw |-> 10],
    [link |-> "b",   date |-> FirstDay,     plen |-> 300, ad |-> 0, hw |-> 1 .. 4, lw |-> 20],
    [link |-> "",    date |-> FirstDay,     plen |-> 300, ad |-> 0, hw |-> 1 .. 8, lw |-> 10],
    [link |-> "c",   date |-> FirstDay,     plen |-> 0,   ad |-> 0, hw |-> {},     lw |-> 10],
    [link |-> "",    date |-> FirstDay,     plen |-> 0,   ad |-> 0, hw |-> {},     lw |-> 10],
    [link |-> "b",   date |-> NullDate,     plen |-> 300, ad |-> 0, hw |-> 1 .. 8, lw |-> 10],
    [link |-> "c",   date |-> FirstDay,     plen |-> 300, ad |-> 5, hw |-> 1 .. 8, lw |-> 10],
    [link |-> "c",   date |-> FirstDay,     plen |-> 300, ad |-> 0, hw |-> 9 .. 16, lw |-> 10],
    [link |-> "b",   date |-> FirstDay,     plen |-> 100, ad |-> 0, hw |-> 1 .. 8, lw |-> 10],
    [link |-> "b",   date |-> FirstDay + 1, plen |-> 300, ad |-> 0, hw |-> 1 .. 8, lw |-> 10] }

\* the feed of s1 has the entries 1 and 2, that of s2 the entry 3
FeedOf(sid) == IF sid = "s1" THEN <<1, 2>> ELSE <<3>>
SourceOf(n) == IF n \in {1, 2} THEN "s1" ELSE "s2"

\* normalize_url: "" for no link, else the link without query and fragment
NormalizeUrl(link) == IF link = "a?x" THEN "a" ELSE link

\* the dict fetch_items_from_feed appends for the n-th entry; url_norm is set
\* by collect_items
FetchedItem(feed, n) ==
  [pos |-> n, sid |-> SourceOf(n), link |-> feed[n].link, url_norm |-> NullStr,
   date |-> feed[n].date, plen |-> feed[n].plen, ad |-> feed[n].ad,
   hw |-> feed[n].hw, hx |-> feed[n].hw, lw |-> feed[n].lw, lx |-> feed[n].lw]

\* what dwd_upsert reads of the item
UpsertItem(it, category) ==
  [url_norm |-> it.url_norm, link |-> it.link, source_id |-> it.sid,
   category |-> category, summary |-> 0, date |-> it.date]

\* "if not dt: continue; if start <= dt <= end: inwin.append(it)"
InRunWindow(d) == d # NullDate /\ now - DaysBack <= d /\ d <= now

\* inwin
Inwin(items) == SelectSeq(items, LAMBDA it : InRunWindow(it.date))

\* "it[url_norm] = u; if not u: continue; if u in seen: continue": uniq, from
\* the n-th item of inwin on
RECURSIVE Uniq(_, _, _, _)
Uniq(inwin, n, seen, uniq) ==
  IF n > Len(inwin) THEN uniq
  ELSE LET u == NormalizeUrl(inwin[n].link)
       IN IF u = "" \/ u \in seen
            THEN Uniq(inwin, n + 1, seen, uniq)
            ELSE Uniq(inwin, n + 1, seen \cup {u},
                      Append(uniq, [inwin[n] EXCEPT !.url_norm = u]))

\* uniq of collect_items
UniqOf(items) == Uniq(Inwin(items), 1, {}, <<>>)

\* "if plen < MIN_TEXT_LENGTH: dwd_upsert(it, valid=2); continue"
IsShort(it) == it.plen < MinTextLength

\* the cleaned layer after the upserts of a list of items with one status
RECURSIVE UpsertAll(_, _, _)
UpsertAll(d, items, valid) ==
  IF items = <<>> THEN d
  ELSE UpsertAll(DwdUpsert(d, UpsertItem(Head(items), NullStr), valid), Tail(items), valid)

\* the raw layer after ods_insert_raw of every entry of a feed
RECURSIVE InsertAll(_, _)
InsertAll(r, items) ==
  IF items = <<>> THEN r
  ELSE InsertAll(OdsInsertRaw(r, [source_id |-> Head(items).sid, link |-> Head(items).link]),
                 Tail(items))

\* the calls of dwd_upsert of a run, in order
Upserted(items, valid) == [n \in DOMAIN items |-> [pos |-> items[n].pos, valid |-> valid]]

\* res of analyze_article_llm in the loop
RunResults ==
  {r \in AnalyzeResults : r.confid = 55 /\ r.tags \in {{}, {MarketDataTag}}}

NoBuckets == [b \in BucketNames |-> <<>>]

\* x.get("date") or datetime(1970,1,1), reverse=True, on news_cn and
\* news_overseas
SortedBucket(b) ==
  StableSort(b, [p \in (DOMAIN b) \X (DOMAIN b) |->
                   DateOrMin(b[p[1]].date) > DateOrMin(b[p[2]].date)])

SortedBuckets(bs) ==
  [b \in BucketNames |->
     IF b \in {"news_cn", "news_overseas"} THEN SortedBucket(bs[b]) ELSE bs[b]]

RunInputs ==
  { [pc |-> "start", cfg |-> k, feed |-> f, ids |-> <<>>, items |-> <<>>, todo |-> <<>>,
     fetches |-> 0, calls |-> 0, ups |-> <<>>, kept |-> {}, buckets |-> NoBuckets] :
      k \in CfgKinds, f \in [1 .. 3 -> FeedEntries] }

InitRun ==
  /\ StoreOff
  /\ dd = NoBatch /\ nd = NoBatch /\ cl = NoBatch /\ an = NoBatch
  /\ rn \in RunInputs

\* main(): init_db() has run; ids = load_ids()
LoadConfig ==
  /\ rn.pc = "start"
  /\ rn' = [rn EXCEPT
              !.pc = IF LoadIds(rn.cfg).halt THEN "halted" ELSE "fetch",
              !.ids = LoadIds(rn.cfg).ids]
  /\ UNCHANGED <<storeVars, dd, nd, cl, an>>

\* all_items.extend(fetch_items_from_feed(sid)): http_get gives nothing, or
\* the feed, whose entries all go to the raw layer
FetchFeed ==
  /\ rn.pc = "fetch"
  /\ rn.ids # <<>>
  /\ \E ok \in BOOLEAN :
       LET got == IF ok THEN [k \in DOMAIN FeedOf(Head(rn.ids)) |->
                                FetchedItem(rn.feed, FeedOf(Head(rn.ids))[k])]
                        ELSE <<>>
       IN /\ raw' = InsertAll(raw, got)
          /\ rn' = [rn EXCEPT !.ids = Tail(@), !.items = @ \o got, !.fetches = @ + 1]
  /\ UNCHANGED <<dwd, dws, ads, now, pc, call, work, pre, hist, fresh, ops, dd, nd, cl, an>>

\* the rest of collect_items: the window, the urls, the length filter with its
\* upserts; then analyze_and_bucket up to its loop: the two near-duplicate
\* passes
Collect ==
  /\ rn.pc = "fetch"
  /\ rn.ids = <<>>
  /\ LET uniq == UniqOf(rn.items)
         short == SelectSeq(uniq, IsShort)
         filtered == SelectSeq(uniq, LAMBDA it : ~IsShort(it))
         kept == DropNearDuplicatesAcrossSources(
                   DropNearDuplicatesWithinSource(filtered, SimhashHammingThreshold, "earliest"),
                   SourcesCfg, SimhashHammingThreshold, "prefer_weight_then_earliest")
     IN /\ dwd' = UpsertAll(dwd, short, 2)
        /\ rn' = [rn EXCEPT
                    !.pc = IF kept = <<>> THEN "done" ELSE "loop",
                    !.items = uniq, !.todo = kept, !.ups = Upserted(short, 2),
                    !.kept = {kept[n].pos : n \in DOMAIN kept}]
  /\ UNCHANGED <<raw, dws, ads, now, pc, call, work, pre, hist, fresh, ops, dd, nd, cl, an>>

\* where the loop goes after an item; the buckets of the news are sorted when
\* it ends
AfterItem(r, ups, buckets, calls) ==
  [r EXCEPT
     !.todo = Tail(@), !.ups = ups, !.calls = calls,
     !.pc = IF Tail(r.todo) = <<>> THEN "done" ELSE "loop",
     !.buckets = IF Tail(r.todo) = <<>> THEN SortedBuckets(buckets) ELSE buckets]

\* "for it in items", an item whose ad_score reaches the threshold
LoopAd ==
  /\ rn.pc = "loop"
  /\ Head(rn.todo).ad >= AdScoreThreshold
  /\ dwd' = DwdUpsert(dwd, UpsertItem(Head(rn.todo), NullStr), 3)
  /\ rn' = AfterItem(rn, Append(rn.ups, [pos |-> Head(rn.todo).pos, valid |-> 3]),
                     rn.buckets, rn.calls)
  /\ UNCHANGED <<raw, dws, ads, now, pc, call, work, pre, hist, fresh, ops, dd, nd, cl, an>>

\* analyze_article_llm raises on a reply that is JSON but not the object asked
\* for: nothing in analyze_and_bucket or main catches it
LoopRaise ==
  /\ rn.pc = "loop"
  /\ Head(rn.todo).ad < AdScoreThreshold
  /\ rn' = [rn EXCEPT !.pc = "aborted", !.calls = @ + 1]
  /\ UNCHANGED <<storeVars, dd, nd, cl, an>>

\* "for it in items", an item that is analyzed: ignore, or the category, the
\* upsert and the bucket; done is the item with what the loop has set; kept is
\* the list the two near-duplicate passes have left
LoopItem ==
  /\ rn.pc = "loop"
  /\ Head(rn.todo).ad < AdScoreThreshold
  /\ \E res \in RunResults :
       LET it == Head(rn.todo)
           post == PosteriorCategoryWithPriors(
                     res.category, res.confid, <<>>, PriorsForSource(SourcesCfg, it.sid))
           final == TagOverride(post.cat, res.tags)
           done == [pos |-> it.pos, url_norm |-> it.url_norm, date |-> it.date,
                    category |-> final, region |-> res.region]
       IN IF res.category = "ignore"
            THEN /\ dwd' = DwdUpsert(dwd, UpsertItem(it, NullStr), 4)
                 /\ rn' = AfterItem(rn, Append(rn.ups, [pos |-> it.pos, valid |-> 4]),
                                    rn.buckets, rn.calls + 1)
            ELSE /\ dwd' = DwdUpsert(dwd, UpsertItem(it, final), 1)
                 /\ rn' = AfterItem(
                            rn, Append(rn.ups, [pos |-> it.pos, valid |-> 1]),
                            [rn.buckets EXCEPT ![BucketOf(final, res.region)] = Append(@, done)],
                            rn.calls + 1)
  /\ UNCHANGED <<raw, dws, ads, now, pc, call, work, pre, hist, fresh, ops, dd, nd, cl, an>>

NextRun ==
  \/ LoadConfig
  \/ FetchFeed
  \/ Collect
  \/ LoopAd
  \/ LoopRaise
  \/ LoopItem

SpecRun == InitRun /\ [][NextRun]_vars

\* the calls of dwd_upsert of the run for the entry n
UpsertsOf(n) == {k \in DOMAIN rn.ups : rn.ups[k].pos = n}

\* the entry n came out of collect_items' url pass
InUniq(n) == \E k \in DOMAIN rn.items : rn.items[k].pos = n /\ rn.items[k].url_norm # NullStr

\* C21, as claimed: an entry with an empty title and an empty body is skipped
\* and is never upserted to the cleaned layer.
C21_EmptyItemNeverCleaned ==
  \A n \in DOMAIN rn.feed : rn.feed[n].plen = 0 => UpsertsOf(n) = {}

\* C22: a run whose sources.yml is missing, unreadable, empty or without
\* weights halts in load_ids: no feed is fetched, the classifier is not called,
\* nothing is written to the raw or to the cleaned layer.
C22_BadConfigHaltsFirst ==
  (rn.pc # "off" /\ rn.cfg # "ok") =>
    /\ rn.pc \in {"start", "halted"}
    /\ rn.fetches = 0
    /\ rn.calls = 0
    /\ raw = <<>>
    /\ dwd = <<>>

C22_Witness == rn.pc = "halted" /\ rn.cfg = "unreadable"

\* every row of the cleaned layer has a status of 1 .. 4, and every upsert of
\* the run has the status of its item: 2 below the minimum length, 3 at or
\* above the ad threshold, 1 or 4 for an analyzed item
StatusesOfRun ==
  /\ \A i \in DOMAIN dwd : dwd[i].valid \in 1 .. 4
  /\ \A k \in DOMAIN rn.ups :
       LET e == rn.feed[rn.ups[k].pos]
       IN rn.ups[k].valid = IF e.plen < MinTextLength THEN 2
                            ELSE IF e.ad >= AdScoreThreshold THEN 3
                            ELSE IF rn.ups[k].valid = 4 THEN 4 ELSE 1

\* the entries that survived the url pass and, at full length, the two
\* near-duplicate passes
Survivors ==
  {n \in DOMAIN rn.feed : InUniq(n) /\ (rn.feed[n].plen < MinTextLength \/ n \in rn.kept)}

\* C24, as claimed: the statuses are those of StatusesOfRun, and in a run that
\* is over every item that survived deduplication was upserted exactly once.
C24_StatusesAndOnce ==
  rn.pc \in {"done", "aborted"} =>
    /\ StatusesOfRun
    /\ \A n \in Survivors : Cardinality(UpsertsOf(n)) = 1

\* the buckets that hold the entry n, and how often they do
BucketsOf(n) ==
  {b \in BucketNames : \E k \in DOMAIN rn.buckets[b] : rn.buckets[b][k].pos = n}
TimesIn(b, n) == Cardinality({k \in DOMAIN rn.buckets[b] : rn.buckets[b][k].pos = n})

\* C30: an entry is in a bucket iff the run upserted it with status 1; it is
\* then once in one bucket, and with the category c of its cleaned row and its
\* region that bucket is news_cn or news_overseas for news, c for market and
\* product, method for anything else.
C30_BucketIffAccepted ==
  rn.pc # "off" =>
    \A n \in DOMAIN rn.feed :
      /\ BucketsOf(n) # {} <=> \E k \in UpsertsOf(n) : rn.ups[k].valid = 1
      /\ \A b \in BucketsOf(n) :
           /\ BucketsOf(n) = {b}
           /\ TimesIn(b, n) = 1
           /\ \A k \in DOMAIN rn.buckets[b] :
                rn.buckets[b][k].pos = n =>
                  \E i \in DOMAIN dwd :
                    /\ dwd[i].uid = Sha1(rn.buckets[b][k].url_norm)
                    /\ dwd[i].valid = 1
                    /\ b = IF dwd[i].category = "news"
                             THEN (IF rn.buckets[b][k].region = "cn"
                                     THEN "news_cn" ELSE "news_overseas")
                             ELSE IF dwd[i].category \in {"market", "product"}
                               THEN dwd[i].category ELSE "method"

C30_Witness ==
  /\ rn.pc = "done"
  /\ rn.buckets["news_overseas"] # <<>>
  /\ rn.buckets["market"] # <<>>
  /\ \E k \in DOMAIN rn.ups : rn.ups[k].valid = 4

====
